---- MODULE Spec2Model ----
(***************************************************************************)
(* Floor-plan generator of occult-shooter (src/src/floorPlan/generator.js) *)
(* as a state machine.                                                     *)
(*                                                                         *)
(* Numbers.  A JavaScript Number handed in by the caller is a record      *)
(* [k, v]: k = "fin" with v the value in hundredths (36.5 is 3650),        *)
(* k = "nan", or k = "inf" with v the sign.  After normalisation lengths   *)
(* are integers in hundredths of a meter and counts are plain integers.    *)
(***************************************************************************)
EXTENDS Integers, Sequences, FiniteSets, TLC

VARIABLES
  userOptions,      \* the record the caller passes to generateFloorPlan
  options,          \* generateFloorPlan's normalised copy of it
  pc,               \* position inside generateFloorPlan
  attemptIndex,     \* loop counter of the plan-attempt loop
  bestAttempt,      \* best attempt so far (NoAttempt = null)
  attempt,          \* result of the attempt just finished
  doorOpeningCount, \* initialDoorOpenings.length of the running attempt
  variantIndex,     \* loop counter of the room-size-scale loop
  best,             \* best scale variant so far (NoVariant = null)
  variantCandidate, \* candidate, the scale variant just run (NoVariant = none)
  outcome,          \* what the call gave back: a plan or an error
  rawWalls,         \* unit boundary edges before merging (rawWalls of the wall builders)
  hallwayWalls,     \* generatePlanAttempt's hallwayWalls
  roomWalls,        \* generatePlanAttempt's roomWalls
  doorOpenings,     \* initialDoorOpenings
  connectedDoors,   \* door openings that got a room
  exteriorRoomExits, \* openings of chooseExteriorExitOpenings
  windowOpenings,   \* openings of chooseWindowOpenings
  walls,            \* the solid wall segments of the attempt
  wallPc,           \* position inside the wall part of generatePlanAttempt
  hallwayCells,     \* cells of all hallways (the combined set)
  occupiedCells,    \* generateRoomsFromDoors: hallway cells and placed room rectangles
  roomRecords,      \* generateRoomsFromDoors: the rooms, each with its cell set
  roomIdByCell,     \* generateRoomsFromDoors: owner of every room cell
  roomSizeScale,    \* the scale of the running variant, in ten-thousandths
  doorIndex,        \* position in doorOpenings of the placement loop
  growth,           \* locals of growRoomCells
  roomPc,           \* position inside generateRoomsFromDoors
  hallwayGroups,    \* buildHallwayGroups: groups
  hallwayIndex,     \* buildHallwayGroups: index of the hallway being carved
  hallwayAttempt,   \* buildHallwayGroups: attempt counter of that hallway
  hallwayPc,        \* position inside buildHallwayGroups
  pickedWalls,      \* chooseDoorOpenings: picked, the walls picked so far
  sampledIndices,   \* pickGrowthCandidate: the candidates sampled so far
  sizeModesTried    \* tryPlaceRoomForDoor: the size modes tried for a door, in order

callVars ==
  <<userOptions, options, pc, attemptIndex, bestAttempt, attempt,
    doorOpeningCount, variantIndex, best, variantCandidate, outcome>>

wallVars ==
  <<rawWalls, hallwayWalls, roomWalls, doorOpenings, connectedDoors,
    exteriorRoomExits, windowOpenings, walls, wallPc>>

roomVars ==
  <<hallwayCells, occupiedCells, roomRecords, roomIdByCell, roomSizeScale,
    doorIndex, growth, roomPc>>

loopVars ==
  <<hallwayGroups, hallwayIndex, hallwayAttempt, hallwayPc, pickedWalls, sampledIndices, sizeModesTried>>

vars ==
  <<callVars, wallVars, roomVars, loopVars>>

(***************************************************************************)
(* Bounds of the model.                                                    *)
(***************************************************************************)
\* Largest number of hallway walls long enough for a door in one attempt.
MaxDoorCandidates ==
  3

(***************************************************************************)
(* JavaScript numbers.                                                     *)
(***************************************************************************)
Fin(v) ==
  [k |-> "fin", v |-> v]

NaN ==
  [k |-> "nan", v |-> 0]

PosInf ==
  [k |-> "inf", v |-> 1]

NegInf ==
  [k |-> "inf", v |-> -1]

\* a <= b for two numbers that are not NaN
NumLeq(a, b) ==
  IF a.k = "inf" THEN (a.v = -1 \/ (b.k = "inf" /\ b.v = 1))
  ELSE IF b.k = "inf" THEN b.v = 1
  ELSE a.v <= b.v

MathMin(a, b) ==
  IF NumLeq(a, b) THEN a ELSE b

MathMax(a, b) ==
  IF NumLeq(a, b) THEN b ELSE a

\* Number(x) || fallback : NaN and 0 are falsy
NumberOr(x, fallback) ==
  IF x.k = "nan" \/ (x.k = "fin" /\ x.v = 0) THEN fallback ELSE x

\* clampNumber with the bounds the wrong way round in Math.min: no upper clamp
clampNumberNoUpper(value, min, max) ==
  MathMax(min, value)

clampNumber(value, min, max) ==
  MathMax(min, MathMin(max, value))

\* Math.round of a finite number in hundredths: floor(x + 0.5), still in hundredths
MathRound(x) ==
  Fin(((x.v + 50) \div 100) * 100)

\* numeric value of a finite number in hundredths, as a whole count
Whole(x) ==
  x.v \div 100

DEFAULT_OPTIONS ==
  [ width          |-> Fin(3600),
    height         |-> Fin(2400),
    hallwayCount   |-> Fin(100),
    doorCount      |-> Fin(600),
    roomShapeStyle |-> Fin(4500),
    doorWidth      |-> Fin(120),
    windowWidth    |-> Fin(160),
    maxWindowCount |-> Fin(800) ]

\* options.roomShapeStyle = Math.round(clampNumber(Number(v) || 45, 0, 100))
RoomShapeStyleOption(u) ==
  Whole(MathRound(clampNumber(
    NumberOr(u.roomShapeStyle, DEFAULT_OPTIONS.roomShapeStyle), Fin(0), Fin(10000))))

\* the flag counts as on whenever the caller passed it at all, false included
StrictFlagWhenPresent(flag) ==
  flag # "unset"

\* options.<flag> !== false : everything but the boolean false switches it on
StrictFlag(flag) ==
  flag # "false"

\* The option normalisation at the head of generateFloorPlan.
NormalizeOptions(u) ==
  LET width  == clampNumber(NumberOr(u.width, DEFAULT_OPTIONS.width), Fin(1200), Fin(10000))
      height == clampNumber(NumberOr(u.height, DEFAULT_OPTIONS.height), Fin(1200), Fin(10000))
  IN
  [ width          |-> width.v,
    height         |-> height.v,
    hallwayCount   |-> Whole(MathRound(clampNumber(NumberOr(u.hallwayCount, Fin(100)), Fin(100), Fin(1200)))),
    doorCount      |-> Whole(MathRound(clampNumber(NumberOr(u.doorCount, Fin(0)), Fin(0), Fin(4000)))),
    roomShapeStyle |-> RoomShapeStyleOption(u),
    doorWidth      |-> clampNumber(NumberOr(u.doorWidth, DEFAULT_OPTIONS.doorWidth), Fin(80), Fin(250)).v,
    maxWindowCount |-> Whole(MathRound(clampNumber(NumberOr(u.maxWindowCount, Fin(0)), Fin(0), Fin(4000)))),
    windowWidth    |-> clampNumber(NumberOr(u.windowWidth, DEFAULT_OPTIONS.windowWidth), Fin(80), Fin(280)).v,
    strictDoorCount      |-> StrictFlag(u.strictDoorCount),
    requireExteriorExits |-> StrictFlag(u.requireExteriorExits),
    cols           |-> Whole(MathMax(Fin(1200), MathRound(width))),
    rows           |-> Whole(MathMax(Fin(1200), MathRound(height))) ]

\* normalizeShapeStyle(options.roomShapeStyle) = clampNumber(numeric / 100, 0, 1),
\* in hundredths: numeric / 100 in hundredths is numeric itself
normalizeShapeStyle(styleValue) ==
  clampNumber(Fin(styleValue), Fin(0), Fin(100)).v


(***************************************************************************)
(* generateFloorPlan: the attempt loop and its result.                     *)
(* What the geometry of one attempt decides is drawn here: how many        *)
(* hallway groups were carved, how many hallway walls can host a door,     *)
(* for which door openings a room fitted, how many rooms own a wall long   *)
(* enough for an exit.  Everything else is computed as the code does.      *)
(***************************************************************************)
MaxAttemptsStrict ==
  48

MaxAttemptsRelaxed ==
  12

ScaleCandidateCount ==
  4

Min(a, b) ==
  IF a <= b THEN a ELSE b

Max(a, b) ==
  IF a >= b THEN a ELSE b

NoAttempt ==
  [isNull |-> TRUE, connectedDoors |-> 0, hasExteriorExit |-> FALSE]

NoVariant ==
  [isNull |-> TRUE, connectedDoors |-> 0, exteriorRoomExits |-> 0]

NoOptions ==
  [ width |-> 0, height |-> 0, hallwayCount |-> 0, doorCount |-> 0, roomShapeStyle |-> 0,
    doorWidth |-> 0, maxWindowCount |-> 0, windowWidth |-> 0,
    strictDoorCount |-> FALSE, requireExteriorExits |-> FALSE, cols |-> 0, rows |-> 0 ]

NoMeta ==
  [ width |-> 0, height |-> 0, requestedDoorCount |-> 0, placedDoorCount |-> 0,
    hasExteriorExit |-> FALSE ]

NoOutcome ==
  [kind |-> "none", error |-> "", numbers |-> <<>>, meta |-> NoMeta]

\* a thrown Error: which of the three it is and the numbers its message states
ErrorOutcome(which, numbers) ==
  [kind |-> "error", error |-> which, numbers |-> numbers, meta |-> NoMeta]

PlanOutcome(opts, chosen) ==
  [ kind  |-> "plan",
    error |-> "",
    numbers |-> <<>>,
    meta  |-> [ width              |-> opts.width,
                height             |-> opts.height,
                requestedDoorCount |-> opts.doorCount,
                placedDoorCount    |-> chosen.connectedDoors,
                hasExteriorExit    |-> chosen.hasExteriorExit ] ]

\* the budget of a strict call for every call
maxAttemptsAlwaysStrict(opts) ==
  MaxAttemptsStrict

\* maxAttempts = strictDoorCount || requireExteriorExits ? 48 : 12
maxAttempts(opts) ==
  IF opts.strictDoorCount \/ opts.requireExteriorExits
    THEN MaxAttemptsStrict ELSE MaxAttemptsRelaxed

\* chooseDoorOpenings: the number of openings it returns for `candidates`
\* hallway walls of length >= doorWidth + 0.8 and `groups` hallway groups
chooseDoorOpeningsCount(candidates, groups, opts) ==
  IF candidates = 0 \/ opts.doorCount <= 0
    THEN 0
    ELSE Min(Max(opts.doorCount * 2, groups), candidates)

\* chooseExteriorExitOpenings: the number of exits it returns when
\* `eligibleRooms` rooms own a wall of length >= doorWidth + 0.5
exteriorExitCount(eligibleRooms) ==
  IF eligibleRooms < 2 THEN 0 ELSE 2

\* the replacement test of the scale loop
BetterVariant(candidate, current) ==
  \/ current.isNull
  \/ candidate.connectedDoors > current.connectedDoors
  \/ (candidate.exteriorRoomExits >= 2 /\ current.exteriorRoomExits < 2)

\* the early-return test of the scale loop
VariantHitsTarget(candidate, opts) ==
  candidate.connectedDoors = opts.doorCount /\ candidate.exteriorRoomExits >= 2

\* what generatePlanAttempt returns for the variant generateRoomsWithAdaptiveScale gave back
AttemptOf(variant) ==
  [ isNull          |-> FALSE,
    connectedDoors  |-> variant.connectedDoors,
    hasExteriorExit |-> variant.exteriorRoomExits >= 2 ]

\* the replacement test of the plan-attempt loop
BetterAttempt(candidate, current) ==
  \/ current.isNull
  \/ candidate.connectedDoors > current.connectedDoors
  \/ (candidate.hasExteriorExit /\ ~current.hasExteriorExit)

\* the break test asks for more doors than the target
AttemptHitsTargetOnlyAbove(candidate, opts) ==
  candidate.connectedDoors > opts.doorCount /\ candidate.hasExteriorExit

\* the break test of the plan-attempt loop
AttemptHitsTarget(candidate, opts) ==
  candidate.connectedDoors = opts.doorCount /\ candidate.hasExteriorExit

\* the door-count test compares with < instead of !==
finishOutcomeOnlyTooFew(opts, chosen) ==
  IF chosen.isNull
    THEN ErrorOutcome("layout", <<>>)
  ELSE IF opts.strictDoorCount /\ chosen.connectedDoors < opts.doorCount
    THEN ErrorOutcome("doorCount", <<opts.doorCount>>)
  ELSE IF opts.requireExteriorExits /\ ~chosen.hasExteriorExit
    THEN ErrorOutcome("exteriorExit", <<2>>)
  ELSE PlanOutcome(opts, chosen)

\* the door-count test is not guarded by strictDoorCount
finishOutcomeUnguardedDoorTest(opts, chosen) ==
  IF chosen.isNull
    THEN ErrorOutcome("layout", <<>>)
  ELSE IF chosen.connectedDoors # opts.doorCount
    THEN ErrorOutcome("doorCount", <<opts.doorCount>>)
  ELSE IF opts.requireExteriorExits /\ ~chosen.hasExteriorExit
    THEN ErrorOutcome("exteriorExit", <<2>>)
  ELSE PlanOutcome(opts, chosen)

\* the exterior-exit test is tied to strictDoorCount instead of requireExteriorExits
finishOutcomeWrongFlag(opts, chosen) ==
  IF chosen.isNull
    THEN ErrorOutcome("layout", <<>>)
  ELSE IF opts.strictDoorCount /\ chosen.connectedDoors # opts.doorCount
    THEN ErrorOutcome("doorCount", <<opts.doorCount>>)
  ELSE IF opts.strictDoorCount /\ ~chosen.hasExteriorExit
    THEN ErrorOutcome("exteriorExit", <<2>>)
  ELSE PlanOutcome(opts, chosen)

\* the tail of generateFloorPlan: the three throws, then the plan record
finishOutcome(opts, chosen) ==
  IF chosen.isNull
    THEN ErrorOutcome("layout", <<>>)
  ELSE IF opts.strictDoorCount /\ chosen.connectedDoors # opts.doorCount
    THEN ErrorOutcome("doorCount", <<opts.doorCount>>)
  ELSE IF opts.requireExteriorExits /\ ~chosen.hasExteriorExit
    THEN ErrorOutcome("exteriorExit", <<2>>)
  ELSE PlanOutcome(opts, chosen)

(***************************************************************************)
(* Actions of one call of generateFloorPlan.                               *)
(***************************************************************************)
\* lines 1302-1325: copy and clamp the options, set up the loop
Normalize ==
  /\ pc = "start"
  /\ options' = NormalizeOptions(userOptions)
  /\ attemptIndex' = 0
  /\ bestAttempt' = NoAttempt
  /\ pc' = "attempt"
  /\ UNCHANGED <<userOptions, attempt, doorOpeningCount, variantIndex, best,
                 variantCandidate, outcome>>
  /\ UNCHANGED <<wallVars, roomVars, loopVars>>

\* generatePlanAttempt up to chooseDoorOpenings: hallways carved, door openings chosen
BeginAttempt ==
  /\ pc = "attempt"
  /\ attemptIndex < maxAttempts(options)
  /\ \E groups \in 1..options.hallwayCount, candidates \in 0..MaxDoorCandidates :
       doorOpeningCount' = chooseDoorOpeningsCount(candidates, groups, options)
  /\ variantIndex' = 0
  /\ best' = NoVariant
  /\ pc' = "scale"
  /\ UNCHANGED <<userOptions, options, attemptIndex, bestAttempt, attempt,
                 variantCandidate, outcome>>
  /\ UNCHANGED <<wallVars, roomVars, loopVars>>

\* lines 928-952: one scale variant is run: generateRoomsFromDoors connects `placed`
\* doors and chooseExteriorExitOpenings finds `eligibleRooms` rooms it can use
ScaleVariant ==
  /\ pc = "scale"
  /\ variantIndex < ScaleCandidateCount
  /\ \E placed \in 0..doorOpeningCount :
     \E eligibleRooms \in 0..placed :
       variantCandidate' = [ isNull            |-> FALSE,
                             connectedDoors    |-> placed,
                             exteriorRoomExits |-> exteriorExitCount(eligibleRooms) ]
  /\ pc' = "variantDone"
  /\ UNCHANGED <<userOptions, options, attemptIndex, bestAttempt, attempt, doorOpeningCount,
                 variantIndex, best, outcome>>
  /\ UNCHANGED <<wallVars, roomVars, loopVars>>

\* lines 953-965: keep the better variant, return on a full hit or after the last variant
EndVariant ==
  /\ pc = "variantDone"
  /\ LET kept == IF BetterVariant(variantCandidate, best)
                   THEN variantCandidate ELSE best
     IN
     IF VariantHitsTarget(variantCandidate, options)
       THEN /\ attempt' = AttemptOf(variantCandidate)
            /\ best' = NoVariant
            /\ variantIndex' = 0
            /\ pc' = "attemptDone"
     ELSE IF variantIndex + 1 >= ScaleCandidateCount
       THEN /\ attempt' = AttemptOf(kept)
            /\ best' = NoVariant
            /\ variantIndex' = 0
            /\ pc' = "attemptDone"
     ELSE /\ best' = kept
          /\ variantIndex' = variantIndex + 1
          /\ pc' = "scale"
          /\ UNCHANGED attempt
  /\ variantCandidate' = NoVariant
  /\ UNCHANGED <<userOptions, options, attemptIndex, bestAttempt, doorOpeningCount, outcome>>
  /\ UNCHANGED <<wallVars, roomVars, loopVars>>

\* lines 1329-1339: keep the better attempt, break on a full hit
EndAttempt ==
  /\ pc = "attemptDone"
  /\ LET hit == AttemptHitsTarget(attempt, options) IN
     /\ bestAttempt' = IF BetterAttempt(attempt, bestAttempt) \/ hit THEN attempt ELSE bestAttempt
     /\ attemptIndex' = IF hit THEN attemptIndex ELSE attemptIndex + 1
     /\ pc' = IF hit \/ attemptIndex + 1 >= maxAttempts(options) THEN "finish" ELSE "attempt"
  /\ attempt' = NoAttempt
  /\ doorOpeningCount' = 0
  /\ UNCHANGED <<userOptions, options, variantIndex, best, variantCandidate, outcome>>
  /\ UNCHANGED <<wallVars, roomVars, loopVars>>

\* lines 1342-1381: throw or return the plan
Finish ==
  /\ pc = "finish"
  /\ outcome' = finishOutcome(options, bestAttempt)
  /\ pc' = "done"
  /\ UNCHANGED <<userOptions, options, attemptIndex, bestAttempt, attempt,
                 doorOpeningCount, variantIndex, best, variantCandidate>>
  /\ UNCHANGED <<wallVars, roomVars, loopVars>>

CallNext ==
  \/ Normalize
  \/ BeginAttempt
  \/ ScaleVariant
  \/ EndVariant
  \/ EndAttempt
  \/ Finish

(***************************************************************************)
(* Callers.                                                                *)
(***************************************************************************)
FlagValues ==
  {"true", "false", "unset"}

\* the default options with a door count, a hallway count and the two flags chosen
CallerOptions(doorCount, hallwayCount, strict, exits) ==
  [ width                |-> DEFAULT_OPTIONS.width,
    height               |-> DEFAULT_OPTIONS.height,
    hallwayCount         |-> Fin(hallwayCount * 100),
    doorCount            |-> Fin(doorCount * 100),
    roomShapeStyle       |-> DEFAULT_OPTIONS.roomShapeStyle,
    doorWidth            |-> DEFAULT_OPTIONS.doorWidth,
    windowWidth          |-> DEFAULT_OPTIONS.windowWidth,
    maxWindowCount       |-> DEFAULT_OPTIONS.maxWindowCount,
    strictDoorCount      |-> strict,
    requireExteriorExits |-> exits ]

\* growRoomCells is not running
NoGrowth ==
  [ target |-> 0, claimed |-> 0, pass |-> 0, passProgress |-> FALSE, order |-> <<>>,
    index |-> 0, candidates |-> {}, claim |-> 0, maxClaims |-> 0, maxPasses |-> 0,
    grown |-> 0 ]

\* no room work is in progress
RoomsIdle ==
  /\ hallwayCells = {}
  /\ occupiedCells = {}
  /\ roomRecords = <<>>
  /\ roomIdByCell = <<>>
  /\ roomSizeScale = 0
  /\ doorIndex = 0
  /\ growth = NoGrowth
  /\ roomPc = "idle"

\* no door has had a size mode tried for it
NoModesTried ==
  [door |-> 0, modes |-> <<>>]

\* no loop of the attempt is being stepped through
LoopsIdle ==
  /\ hallwayGroups = <<>>
  /\ hallwayIndex = 0
  /\ hallwayAttempt = 0
  /\ hallwayPc = "idle"
  /\ pickedWalls = <<>>
  /\ sampledIndices = {}
  /\ sizeModesTried = NoModesTried

\* no wall work is in progress
WallsIdle ==
  /\ rawWalls = {}
  /\ hallwayWalls = {}
  /\ roomWalls = {}
  /\ doorOpenings = <<>>
  /\ connectedDoors = <<>>
  /\ exteriorRoomExits = <<>>
  /\ windowOpenings = <<>>
  /\ walls = <<>>
  /\ wallPc = "idle"

CallInit ==
  /\ WallsIdle
  /\ RoomsIdle
  /\ LoopsIdle
  /\ options = NoOptions
  /\ pc = "start"
  /\ attemptIndex = 0
  /\ bestAttempt = NoAttempt
  /\ attempt = NoAttempt
  /\ doorOpeningCount = 0
  /\ variantIndex = 0
  /\ best = NoVariant
  /\ variantCandidate = NoVariant
  /\ outcome = NoOutcome

\* (doorCount, hallwayCount) of the calls of the control-flow specification;
\* <<6, 1>> is the scenario of the spec's section 8
DoorAndHallwayCounts ==
  {<<0, 1>>, <<1, 3>>, <<2, 1>>, <<6, 1>>}

\* Calls that differ in the door count, the hallway count and the two strict flags.
PlanInit ==
  /\ \E counts \in DoorAndHallwayCounts, strict \in FlagValues, exits \in FlagValues :
       userOptions = CallerOptions(counts[1], counts[2], strict, exits)
  /\ CallInit

Spec ==
  PlanInit /\ [][CallNext]_vars

\* numeric option values a caller may pass, in and out of every documented range
RawNumbers ==
  {NaN, NegInf, PosInf} \cup
  {Fin(v) : v \in {-500, 0, 50, 500, 1250, 4500, 10000, 100000}}

\* Calls of the editor kind (both flags false) that differ in the numeric options.
NormInit ==
  /\ \E a \in RawNumbers, b \in RawNumbers :
       userOptions = [ width                |-> a,
                       height               |-> b,
                       hallwayCount         |-> b,
                       doorCount            |-> a,
                       roomShapeStyle       |-> a,
                       doorWidth            |-> a,
                       maxWindowCount       |-> b,
                       windowWidth          |-> b,
                       strictDoorCount      |-> "false",
                       requireExteriorExits |-> "false" ]
  /\ CallInit

SpecNorm ==
  NormInit /\ [][CallNext]_vars

(***************************************************************************)
(* Walls and openings.  Grid coordinates are whole cells; offsets along a  *)
(* wall and the coordinates of the cut segments are hundredths of a cell.  *)
(* A wall is [edge, hallwayId, roomId] with 0 for an id the code leaves    *)
(* out; room-3 is roomId 3 and hall-1 is hallwayId 1.                      *)
(***************************************************************************)
\* Longest run of unit edges on the grid line of the wall specification.
MaxWallLength ==
  6

\* Largest maxWindowCount the wall specification asks for.
MaxWindowCount ==
  2

Abs(n) ==
  IF n < 0 THEN -n ELSE n

Range(s) ==
  {s[i] : i \in 1..Len(s)}

\* lines 62-67
normalizeEdge(x1, y1, x2, y2) ==
  IF x1 < x2 \/ (x1 = x2 /\ y1 <= y2)
    THEN [x1 |-> x1, y1 |-> y1, x2 |-> x2, y2 |-> y2]
    ELSE [x1 |-> x2, y1 |-> y2, x2 |-> x1, y2 |-> y1]

\* lines 73-75, in hundredths: every edge the generator builds is horizontal
\* or vertical, where Math.hypot is the coordinate difference
edgeLength(edge) ==
  100 * (Abs(edge.x2 - edge.x1) + Abs(edge.y2 - edge.y1))

\* lines 260-269: the bucket entry of one raw wall
BucketItem(wall) ==
  LET isHorizontal == wall.edge.y1 = wall.edge.y2
      start == IF isHorizontal THEN wall.edge.x1 ELSE wall.edge.y1
      end   == IF isHorizontal THEN wall.edge.x2 ELSE wall.edge.y2
  IN [ axis  |-> IF isHorizontal THEN "h" ELSE "v",
       coord |-> IF isHorizontal THEN wall.edge.y1 ELSE wall.edge.x1,
       start |-> Min(start, end),
       end   |-> Max(start, end) ]

\* lines 274-290: walk one bucket in order of start; current is the run being
\* extended.  Coordinates are integers, so the 1e-6 slack of the code's
\* comparison changes nothing.
RECURSIVE coalesce(_, _)
coalesce(items, current) ==
  IF items = {} THEN {current}
  ELSE LET item == CHOOSE i \in items : \A j \in items : i.start <= j.start
       IN IF item.start <= current.end
            THEN coalesce(items \ {item},
                          [current EXCEPT !.end = Max(current.end, item.end)])
            ELSE {current} \cup coalesce(items \ {item}, item)

\* lines 257-298
mergeCollinearWalls(raw) ==
  LET items == {BucketItem(wall) : wall \in raw}
      keys  == {<<item.axis, item.coord>> : item \in items}
      bucket(key) == {item \in items : <<item.axis, item.coord>> = key}
      first(key) == CHOOSE i \in bucket(key) : \A j \in bucket(key) : i.start <= j.start
      merged == UNION {coalesce(bucket(key) \ {first(key)}, first(key)) : key \in keys}
  IN { [edge |-> IF entry.axis = "h"
                   THEN normalizeEdge(entry.start, entry.coord, entry.end, entry.coord)
                   ELSE normalizeEdge(entry.coord, entry.start, entry.coord, entry.end)]
       : entry \in merged }

\* lines 501-515 without the grouping by room: one merge of all the room
\* edges, each merged wall given the room of its first edge
mergeCollinearWallsAcrossRooms(raw) ==
  { [edge |-> wall.edge, hallwayId |-> 0,
     roomId |-> CHOOSE roomId \in {w.roomId : w \in raw} :
                  [edge |-> normalizeEdge(wall.edge.x1, wall.edge.y1,
                                          wall.edge.x1 + (IF wall.edge.y1 = wall.edge.y2 THEN 1 ELSE 0),
                                          wall.edge.y1 + (IF wall.edge.y1 = wall.edge.y2 THEN 0 ELSE 1)),
                   roomId |-> roomId] \in raw]
    : wall \in mergeCollinearWalls(raw) }

\* lines 501-515
mergeCollinearWallsWithRoomId(raw) ==
  UNION { { [edge |-> wall.edge, hallwayId |-> 0, roomId |-> roomId]
            : wall \in mergeCollinearWalls({w \in raw : w.roomId = roomId}) }
          : roomId \in {w.roomId : w \in raw} }

\* lines 1017, 1097, 1144: offset = minOffset + rng() * (maxOffset - minOffset)
\* with rng() in [0, 1).  The draws kept are the two ends of the range and the
\* offsets just behind the openings already on the wall (their ends are marks).
OffsetDraws(minOffset, maxOffset, marks) ==
  LET highest == IF maxOffset > minOffset THEN maxOffset - 1 ELSE minOffset
  IN {offset \in {minOffset, highest} \cup {mark + gap : mark \in marks, gap \in {0, 5, 8, 9}} :
        minOffset <= offset /\ offset <= highest}

\* lines 1013-1024, 1094-1104, 1141-1150: the opening of the given width put
\* on a wall at an offset
OpeningOn(wall, type, width, offset, roomId) ==
  [ wallKey   |-> wall.edge,
    hallwayId |-> wall.hallwayId,
    roomId    |-> roomId,
    type      |-> type,
    start     |-> offset,
    end       |-> offset + width ]

\* lines 1014-1016, 1094-1096, 1141-1143: the offsets an opening may get
OffsetsOn(wall, width, minOffset, earlier) ==
  LET remaining == Max(20, edgeLength(wall.edge) - width)
      maxOffset == Max(minOffset, remaining - minOffset)
  IN OffsetDraws(minOffset, maxOffset,
                 {opening.end : opening \in {o \in Range(earlier) : o.wallKey = wall.edge}})

\* lines 993-1025 and 1131-1151: every list of count openings on distinct
\* entries of candidates, one random pick and one random offset each
RECURSIVE OpeningsOnWalls(_, _, _, _, _, _)
OpeningsOnWalls(candidates, count, chosen, type, width, minOffset) ==
  IF count = 0 \/ candidates = {} THEN {chosen}
  ELSE UNION { UNION { OpeningsOnWalls(candidates \ {wall}, count - 1,
                                       Append(chosen, OpeningOn(wall, type, width, offset, 0)),
                                       type, width, minOffset)
                       : offset \in OffsetsOn(wall, width, minOffset, chosen) }
               : wall \in candidates }

\* lines 968-1026: the lists chooseDoorOpenings can return
chooseDoorOpenings(hallWalls, groups, opts) ==
  LET doorCandidates == {wall \in hallWalls : edgeLength(wall.edge) >= opts.doorWidth + 80}
      maxDoors == chooseDoorOpeningsCount(Cardinality(doorCandidates), groups, opts)
  IN OpeningsOnWalls(doorCandidates, maxDoors, <<>>, "door", opts.doorWidth, 10)

\* lines 1109-1154: the lists chooseWindowOpenings can return
chooseWindowOpenings(rWalls, hWalls, doors, opts) ==
  LET maxWindows == Max(0, opts.maxWindowCount)
      doorWallKeys == {opening.wallKey : opening \in Range(doors)}
      candidates == {wall \in rWalls \cup hWalls :
                       /\ edgeLength(wall.edge) >= opts.windowWidth + 80
                       /\ wall.edge \notin doorWallKeys}
      count == Min(maxWindows, Cardinality(candidates))
  IN IF maxWindows <= 0 \/ candidates = {} THEN {<<>>}
     ELSE OpeningsOnWalls(candidates, count, <<>>, "window", opts.windowWidth, 15)

\* lines 1028-1107: the lists chooseExteriorExitOpenings can return.  With more
\* than two eligible rooms the code takes the pair whose centres are farthest
\* apart; here any pair may be the one.
chooseExteriorExitOpenings(rWalls, opts) ==
  LET candidates == {wall \in rWalls :
                       edgeLength(wall.edge) >= opts.doorWidth + 50 /\ wall.roomId # 0}
      roomIds == {wall.roomId : wall \in candidates}
      ofRoom(roomId) == {wall \in candidates : wall.roomId = roomId}
      exitOn(wall, earlier) ==
        {OpeningOn(wall, "door", opts.doorWidth, offset, wall.roomId)
           : offset \in OffsetsOn(wall, opts.doorWidth, 10, earlier)}
  IN IF Cardinality(roomIds) < 2 THEN {<<>>}
     ELSE UNION { UNION { UNION { {<<firstExit, secondExit>>
                                    : secondExit \in exitOn(secondWall, <<firstExit>>)}
                                  : firstExit \in exitOn(firstWall, <<>>) }
                          : firstWall \in ofRoom(pair[1]), secondWall \in ofRoom(pair[2]) }
                  : pair \in {p \in roomIds \X roomIds : p[1] < p[2]} }

\* line 1159 without the sort: the openings in the order of allOpenings
sortByStartAsListed(openings) ==
  openings

\* line 1159: the stable sort by start
RECURSIVE sortByStart(_)
sortByStart(openings) ==
  IF openings = <<>> THEN <<>>
  ELSE LET i == CHOOSE i \in 1..Len(openings) :
                  \A j \in 1..Len(openings) :
                    \/ openings[i].start < openings[j].start
                    \/ openings[i].start = openings[j].start /\ i <= j
       IN <<openings[i]>> \o
          sortByStart(SubSeq(openings, 1, i - 1) \o SubSeq(openings, i + 1, Len(openings)))

\* lines 1160-1164: one opening clamped to the wall
clampOpening(opening, length) ==
  [opening EXCEPT !.start = Max(0, Min(length, opening.start)),
                  !.end   = Max(0, Min(length, opening.end))]

\* line 1165
OpeningNotEmpty(opening) ==
  opening.end > opening.start

\* lines 1168-1177: the solid stretches between the sorted openings
RECURSIVE cutSegments(_, _, _)
cutSegments(sorted, cursor, length) ==
  IF sorted = <<>>
    THEN IF cursor < length THEN <<[start |-> cursor, end |-> length]>> ELSE <<>>
  ELSE LET opening == Head(sorted)
           rest == cutSegments(Tail(sorted), Max(cursor, opening.end), length)
       IN IF opening.start > cursor
            THEN <<[start |-> cursor, end |-> opening.start]>> \o rest
            ELSE rest

\* the filter of line 1183 without its minimum length
SegmentNotEmpty(segment) ==
  segment.end - segment.start > 0

\* line 1183: segment.end - segment.start > 0.08
SegmentLongEnough(segment) ==
  segment.end - segment.start > 8

\* lines 1179-1181, 1185-1188 and 1196-1203: the point at an offset along an
\* edge, edge.x1 + dx * offset * invLength, in hundredths
PointAlong(edge, offset) ==
  LET length == edgeLength(edge)
      dx == edge.x2 - edge.x1
      dy == edge.y2 - edge.y1
  IN [ x |-> 100 * edge.x1 + (IF length = 0 THEN 0 ELSE (100 * dx * offset) \div length),
       y |-> 100 * edge.y1 + (IF length = 0 THEN 0 ELSE (100 * dy * offset) \div length) ]

\* lines 1156-1191
createWallSegmentsFromOpenings(wall, openings) ==
  LET length == edgeLength(wall.edge)
      clamped == [i \in 1..Len(openings) |-> clampOpening(sortByStart(openings)[i], length)]
      sorted == SelectSeq(clamped, OpeningNotEmpty)
      segments == SelectSeq(cutSegments(sorted, 0, length), SegmentLongEnough)
  IN [ i \in 1..Len(segments) |->
         [ x1 |-> PointAlong(wall.edge, segments[i].start).x,
           y1 |-> PointAlong(wall.edge, segments[i].start).y,
           x2 |-> PointAlong(wall.edge, segments[i].end).x,
           y2 |-> PointAlong(wall.edge, segments[i].end).y,
           type |-> "wall" ] ]

\* a fixed order of a set of walls, standing for the order of the code's lists
WallBefore(a, b) ==
  LET ka == <<a.edge.x1, a.edge.y1, a.edge.x2, a.edge.y2, a.hallwayId, a.roomId>>
      kb == <<b.edge.x1, b.edge.y1, b.edge.x2, b.edge.y2, b.hallwayId, b.roomId>>
  IN \E i \in 1..6 : ka[i] < kb[i] /\ \A j \in 1..(i - 1) : ka[j] = kb[j]

RECURSIVE WallList(_)
WallList(wallSet) ==
  IF wallSet = {} THEN <<>>
  ELSE LET wall == CHOOSE w \in wallSet : \A other \in wallSet \ {w} : WallBefore(w, other)
       IN <<wall>> \o WallList(wallSet \ {wall})

\* lines 1267-1282: every wall cut by the openings that carry its key
RECURSIVE compileWalls(_, _)
compileWalls(allWalls, allOpenings) ==
  IF allWalls = <<>> THEN <<>>
  ELSE LET wall == Head(allWalls)
           openings == SelectSeq(allOpenings, LAMBDA opening : opening.wallKey = wall.edge)
       IN createWallSegmentsFromOpenings(wall, openings) \o compileWalls(Tail(allWalls), allOpenings)

(***************************************************************************)
(* The wall part of generatePlanAttempt as actions.                        *)
(***************************************************************************)
\* lines 1238-1241 and 903: the raw edges merged into hallway and room walls.
\* getHallwayIdForWall reads cells that are not part of this state: the id
\* is hall-1 or null.
MergeWalls ==
  /\ wallPc = "raw"
  /\ \E hallwayId \in {0, 1} :
       hallwayWalls' = { [edge |-> wall.edge, hallwayId |-> hallwayId, roomId |-> 0]
                         : wall \in mergeCollinearWalls({w \in rawWalls : w.roomId = 0}) }
  /\ roomWalls' = mergeCollinearWallsWithRoomId({w \in rawWalls : w.roomId # 0})
  /\ wallPc' = "doors"
  /\ UNCHANGED <<rawWalls, doorOpenings, connectedDoors, exteriorRoomExits,
                 windowOpenings, walls>>
  /\ UNCHANGED <<callVars, roomVars, loopVars>>

\* line 1242
ChooseDoorOpenings ==
  /\ wallPc = "doors"
  /\ doorOpenings' \in chooseDoorOpenings(hallwayWalls, 1, options)
  /\ wallPc' = "rooms"
  /\ UNCHANGED <<rawWalls, hallwayWalls, roomWalls, connectedDoors, exteriorRoomExits,
                 windowOpenings, walls>>
  /\ UNCHANGED <<callVars, roomVars, loopVars>>

\* lines 1243-1258: generateRoomsWithAdaptiveScale connects the door openings
\* for which a room fits (any of them, in their order) and chooses the exits
ConnectDoorsAndExits ==
  /\ wallPc = "rooms"
  /\ \E kept \in SUBSET (1..Len(doorOpenings)) :
       connectedDoors' = SelectSeq(doorOpenings,
                                   LAMBDA opening : \E i \in kept : doorOpenings[i] = opening)
  /\ exteriorRoomExits' \in chooseExteriorExitOpenings(roomWalls, options)
  /\ wallPc' = "windows"
  /\ UNCHANGED <<rawWalls, hallwayWalls, roomWalls, doorOpenings, windowOpenings, walls>>
  /\ UNCHANGED <<callVars, roomVars, loopVars>>

\* lines 1259-1265
ChooseWindowOpenings ==
  /\ wallPc = "windows"
  /\ windowOpenings' \in chooseWindowOpenings(roomWalls, hallwayWalls,
                                              connectedDoors \o exteriorRoomExits, options)
  /\ wallPc' = "compile"
  /\ UNCHANGED <<rawWalls, hallwayWalls, roomWalls, doorOpenings, connectedDoors,
                 exteriorRoomExits, walls>>
  /\ UNCHANGED <<callVars, roomVars, loopVars>>

\* lines 1267-1289
CompileWalls ==
  /\ wallPc = "compile"
  /\ walls' = compileWalls(WallList(hallwayWalls) \o WallList(roomWalls),
                           connectedDoors \o exteriorRoomExits \o windowOpenings)
  /\ wallPc' = "done"
  /\ UNCHANGED <<rawWalls, hallwayWalls, roomWalls, doorOpenings, connectedDoors,
                 exteriorRoomExits, windowOpenings>>
  /\ UNCHANGED <<callVars, roomVars, loopVars>>

WallsNext ==
  \/ MergeWalls
  \/ ChooseDoorOpenings
  \/ ConnectDoorsAndExits
  \/ ChooseWindowOpenings
  \/ CompileWalls

\* lines 303-305, 528: the unit edge at a position of a grid line
UnitEdge(axis, coord, position) ==
  IF axis = "h" THEN normalizeEdge(position, coord, position + 1, coord)
                ELSE normalizeEdge(coord, position, coord, position + 1)

\* who owns the raw edges of the line: the hallway, one room, or two rooms
\* that face each other across it
WallOwnerSets ==
  {{0}, {1}, {1, 2}}

\* The boundary edges on one grid line after the cells are settled, inside a
\* call with the default widths: any non-empty set of unit edges of the line.
WallsInit ==
  /\ \E axis \in {"h", "v"}, coord \in {0, 7},
        positions \in (SUBSET (0..(MaxWallLength - 1))) \ {{}},
        owners \in WallOwnerSets, windows \in 0..MaxWindowCount :
       /\ rawWalls = { [edge |-> UnitEdge(axis, coord, position), roomId |-> roomId]
                       : position \in positions, roomId \in owners }
       /\ userOptions = [CallerOptions(2, 1, "false", "false")
                           EXCEPT !.maxWindowCount = Fin(100 * windows)]
  /\ options = NormalizeOptions(userOptions)
  /\ pc = "attempt"
  /\ attemptIndex = 0
  /\ bestAttempt = NoAttempt
  /\ attempt = NoAttempt
  /\ doorOpeningCount = 0
  /\ variantIndex = 0
  /\ best = NoVariant
  /\ variantCandidate = NoVariant
  /\ outcome = NoOutcome
  /\ hallwayWalls = {}
  /\ roomWalls = {}
  /\ doorOpenings = <<>>
  /\ connectedDoors = <<>>
  /\ exteriorRoomExits = <<>>
  /\ windowOpenings = <<>>
  /\ walls = <<>>
  /\ wallPc = "raw"
  /\ RoomsIdle
  /\ LoopsIdle

SpecWalls ==
  WallsInit /\ [][WallsNext]_vars

(***************************************************************************)
(* Hallways and rooms on the grid.  A cell is <<x, y>>.  A room size scale *)
(* is kept in ten-thousandths (1.08 is 10800), the shape style in          *)
(* hundredths (0.45 is 45).                                                *)
(***************************************************************************)
\* Cells a growRoomCells run may claim before it is cut short.
MaxGrowthClaims ==
  1

Between(a, b) ==
  Min(a, b)..Max(a, b)

\* lines 77-94 without the walk between the points: the points alone
collectPolylinePathOfPoints(points) ==
  {<<points[i].x, points[i].y>> : i \in 1..Len(points)}

\* lines 77-94, the visited cells as a set
RECURSIVE collectPolylinePath(_)
collectPolylinePath(points) ==
  IF Len(points) = 0 THEN {}
  ELSE IF Len(points) = 1 THEN {<<points[1].x, points[1].y>>}
  ELSE {<<x, points[1].y>> : x \in Between(points[1].x, points[2].x)} \cup
       {<<points[2].x, y>> : y \in Between(points[1].y, points[2].y)} \cup
       collectPolylinePath(Tail(points))

\* lines 116-169; draw holds the random integers xA, xB, xC, yA, yB, yC, branchY
makeCenterlinePoints(shape, draw) ==
  IF shape = "U"
    THEN LET leftX == Min(draw.xA, draw.xB)
             rightX == Max(draw.xA, draw.xB)
             topY == Min(draw.yA, draw.yB)
             bottomY == Max(draw.yA, draw.yC)
         IN << [x |-> leftX, y |-> topY], [x |-> leftX, y |-> bottomY],
               [x |-> rightX, y |-> bottomY], [x |-> rightX, y |-> topY] >>
  ELSE IF shape = "T"
    THEN LET topY == Min(draw.yA, draw.yB)
             bottomY == Max(draw.yA, draw.yB)
         IN << [x |-> draw.xA, y |-> topY], [x |-> draw.xA, y |-> bottomY],
               [x |-> Min(draw.xB, draw.xC), y |-> draw.branchY],
               [x |-> Max(draw.xB, draw.xC), y |-> draw.branchY] >>
  ELSE IF shape = "S"
    THEN << [x |-> draw.xA, y |-> draw.yA], [x |-> draw.xB, y |-> draw.yA],
            [x |-> draw.xB, y |-> draw.yC], [x |-> draw.xC, y |-> draw.yC],
            [x |-> draw.xC, y |-> draw.yB] >>
  ELSE << [x |-> draw.xA, y |-> draw.yA], [x |-> draw.xB, y |-> draw.yA],
          [x |-> draw.xB, y |-> draw.yB] >>

\* lines 117-127 and 147: the values the random integers of a draw can take
IsCenterlineDraw(shape, draw, bounds) ==
  LET xs == 3..Max(4, bounds.cols - 4)
      ys == 3..Max(4, bounds.rows - 4)
  IN /\ {draw.xA, draw.xB, draw.xC} \subseteq xs
     /\ {draw.yA, draw.yB, draw.yC} \subseteq ys
     /\ shape = "T" => draw.branchY \in Between(draw.yA, draw.yB)

\* lines 105-114
stampHallwayCell(bounds, x, y, brushRadius) ==
  {<<nx, ny>> \in ((x - brushRadius)..(x + brushRadius)) \X ((y - brushRadius)..(y + brushRadius)) :
     ~(nx < 0 \/ nx >= bounds.cols \/ ny < 0 \/ ny >= bounds.rows)}

\* lines 171-180
generateHallwayCells(bounds, shape, corridorWidthCells, draw) ==
  LET brushRadius == Max(0, (corridorWidthCells - 1) \div 2)
  IN UNION {stampHallwayCell(bounds, cell[1], cell[2], brushRadius)
              : cell \in collectPolylinePath(makeCenterlinePoints(shape, draw))}

\* lines 300-324
buildHallwayWalls(bounds, cells) ==
  mergeCollinearWalls(
    {[edge |-> normalizeEdge(c[1], c[2], c[1] + 1, c[2]), roomId |-> 0]
       : c \in {d \in cells : <<d[1], d[2] - 1>> \notin cells}} \cup
    {[edge |-> normalizeEdge(c[1], c[2] + 1, c[1] + 1, c[2] + 1), roomId |-> 0]
       : c \in {d \in cells : <<d[1], d[2] + 1>> \notin cells}} \cup
    {[edge |-> normalizeEdge(c[1], c[2], c[1], c[2] + 1), roomId |-> 0]
       : c \in {d \in cells : <<d[1] - 1, d[2]>> \notin cells}} \cup
    {[edge |-> normalizeEdge(c[1] + 1, c[2], c[1] + 1, c[2] + 1), roomId |-> 0]
       : c \in {d \in cells : <<d[1] + 1, d[2]>> \notin cells}})

\* lines 353-370
classifyHallwayWallSide(edge, cells, bounds) ==
  IF edge.y1 = edge.y2
    THEN LET y == edge.y1
             sampleX == Max(0, (edge.x1 + edge.x2) \div 2)
             hallwayAbove == y - 1 >= 0 /\ <<sampleX, y - 1>> \in cells
             hallwayBelow == y < bounds.rows /\ <<sampleX, y>> \in cells
         IN IF hallwayBelow /\ ~hallwayAbove THEN "north"
            ELSE IF hallwayAbove /\ ~hallwayBelow THEN "south"
            ELSE "none"
    ELSE LET x == edge.x1
             sampleY == Max(0, (edge.y1 + edge.y2) \div 2)
             hallwayLeft == x - 1 >= 0 /\ <<x - 1, sampleY>> \in cells
             hallwayRight == x < bounds.cols /\ <<x, sampleY>> \in cells
         IN IF hallwayRight /\ ~hallwayLeft THEN "west"
            ELSE IF hallwayLeft /\ ~hallwayRight THEN "east"
            ELSE "none"

\* lines 326-351 with one hallway group, which owns every hallway cell: the
\* id is hall-1 where a side is found and null elsewhere
getHallwayIdForWall(edge, cells, bounds) ==
  IF classifyHallwayWallSide(edge, cells, bounds) = "none" THEN 0 ELSE 1

\* lines 50-56, in ten-thousandths
deriveLayoutScale(opts) ==
  LET area == Max(1, opts.cols * opts.rows)
      hallways == Max(1, opts.hallwayCount)
      rooms == Max(1, opts.doorCount)
  IN Max(11500, Min(42000, (area * 10000) \div (60 * hallways * rooms)))

\* lines 920-929: the scale of the variant with the given index
scaleCandidate(base, index) ==
  Max(10000, IF index = 0 THEN base
             ELSE IF index = 1 THEN (base * 9) \div 10
             ELSE IF index = 2 THEN (base * 8) \div 10
             ELSE Max(10000, (base * 7) \div 10))

\* Math.round of a value in ten-thousandths
RoundScaled(value) ==
  (value + 5000) \div 10000

NoRect ==
  [x |-> 0, y |-> 0, width |-> 0, height |-> 0, side |-> "none"]

\* the rectangle put at the low end of the wall, wherever the door is
roomRectForAtWallStart(doorOpening, hallwayWall, hallwaySide, bounds, frontage, depth) ==
  LET edge == hallwayWall.edge
  IN IF edge.y1 = edge.y2
       THEN IF Min(bounds.cols, edge.x2) - frontage < Max(0, edge.x1) THEN NoRect
            ELSE IF hallwaySide = "north"
              THEN IF edge.y1 - depth < 0 THEN NoRect
                   ELSE [x |-> Max(0, edge.x1), y |-> edge.y1 - depth,
                         width |-> frontage, height |-> depth, side |-> "north"]
            ELSE IF edge.y1 + depth > bounds.rows THEN NoRect
                 ELSE [x |-> Max(0, edge.x1), y |-> edge.y1,
                       width |-> frontage, height |-> depth, side |-> "south"]
       ELSE IF Min(bounds.rows, edge.y2) - frontage < Max(0, edge.y1) THEN NoRect
            ELSE IF hallwaySide = "west"
              THEN IF edge.x1 - depth < 0 THEN NoRect
                   ELSE [x |-> edge.x1 - depth, y |-> Max(0, edge.y1),
                         width |-> depth, height |-> frontage, side |-> "west"]
            ELSE IF edge.x1 + depth > bounds.cols THEN NoRect
                 ELSE [x |-> edge.x1, y |-> Max(0, edge.y1),
                       width |-> depth, height |-> frontage, side |-> "east"]

\* lines 419-457: the rectangle for a drawn frontage and depth
roomRectFor(doorOpening, hallwayWall, hallwaySide, bounds, frontage, depth) ==
  LET edge == hallwayWall.edge
      \* Math.round(wallStart + doorCenter - frontage / 2), computed in 200ths
      along(wallStart) ==
        (200 * wallStart + doorOpening.start + doorOpening.end - 100 * frontage + 100) \div 200
  IN IF edge.y1 = edge.y2
       THEN LET minX == Max(0, Min(edge.x1, edge.x2))
                maxX == Min(bounds.cols - frontage, Max(edge.x1, edge.x2) - frontage)
                clampedX == Max(minX, Min(maxX, along(edge.x1)))
            IN IF maxX < minX THEN NoRect
               ELSE IF hallwaySide = "north"
                 THEN IF edge.y1 - depth < 0 THEN NoRect
                      ELSE [x |-> clampedX, y |-> edge.y1 - depth,
                            width |-> frontage, height |-> depth, side |-> "north"]
               ELSE IF edge.y1 + depth > bounds.rows THEN NoRect
                    ELSE [x |-> clampedX, y |-> edge.y1,
                          width |-> frontage, height |-> depth, side |-> "south"]
       ELSE LET minY == Max(0, Min(edge.y1, edge.y2))
                maxY == Min(bounds.rows - frontage, Max(edge.y1, edge.y2) - frontage)
                clampedY == Max(minY, Min(maxY, along(edge.y1)))
            IN IF maxY < minY THEN NoRect
               ELSE IF hallwaySide = "west"
                 THEN IF edge.x1 - depth < 0 THEN NoRect
                      ELSE [x |-> edge.x1 - depth, y |-> clampedY,
                            width |-> depth, height |-> frontage, side |-> "west"]
               ELSE IF edge.x1 + depth > bounds.cols THEN NoRect
                    ELSE [x |-> edge.x1, y |-> clampedY,
                          width |-> depth, height |-> frontage, side |-> "east"]

\* lines 389-458: the rectangles (or null) buildRoomFromDoor can return for an
\* opening in one size mode, over the random frontage and depth
buildRoomFromDoor(doorOpening, hallwayWall, hallwaySide, bounds, mode, scale) ==
  LET compactMode == mode = "compact"
      wallLengthCells == Max(1, edgeLength(hallwayWall.edge) \div 100)
      scaledRoomSize == IF mode = "large" THEN (scale * 155) \div 100
                        ELSE IF compactMode THEN Max(10000, (scale * 75) \div 100)
                        ELSE (scale * 130) \div 100
      doorCells == (doorOpening.end - doorOpening.start + 99) \div 100
      minFrontage == IF compactMode
                       THEN Max(4, RoundScaled((doorCells + 2) * scaledRoomSize))
                       ELSE Max(6, RoundScaled((doorCells + 5) * scaledRoomSize))
      maxFrontage == IF compactMode
                       THEN Max(minFrontage, Min(RoundScaled(12 * scaledRoomSize), wallLengthCells))
                       ELSE Max(minFrontage, Min(RoundScaled(30 * scaledRoomSize), wallLengthCells))
      maxDepthByBounds == Max(10, (Min(bounds.cols, bounds.rows) * 8) \div 10)
      minDepth == IF compactMode THEN 5 ELSE Max(9, RoundScaled(8 * scaledRoomSize))
      maxDepth == IF compactMode
                    THEN Min(RoundScaled(12 * scaledRoomSize), maxDepthByBounds)
                    ELSE Min(RoundScaled(30 * scaledRoomSize), maxDepthByBounds)
  IN IF maxFrontage < minFrontage \/ maxDepth < minDepth THEN {NoRect}
     ELSE {roomRectFor(doorOpening, hallwayWall, hallwaySide, bounds, frontage, depth)
             : frontage \in minFrontage..maxFrontage, depth \in minDepth..maxDepth}

\* a room that keeps the corner cell of its rectangle only
createRoomCellKeySetCornerOnly(roomRect) ==
  {<<roomRect.x, roomRect.y>>}

\* lines 460-468
createRoomCellKeySet(roomRect) ==
  (roomRect.x..(roomRect.x + roomRect.width - 1)) \X
  (roomRect.y..(roomRect.y + roomRect.height - 1))

\* the overlap test that looks at the hallway cells only
roomCellsOverlapHallwaysOnly(occupied, roomRect) ==
  createRoomCellKeySet(roomRect) \cap hallwayCells # {}

\* lines 372-379
roomCellsOverlap(occupied, roomRect) ==
  createRoomCellKeySet(roomRect) \cap occupied # {}

Bounds ==
  [cols |-> options.cols, rows |-> options.rows]

\* the size modes whatever the scale and the number of door openings
roomSizeModesLargeAlways(scale, openingCount) ==
  <<"large", "normal", "compact">>

\* lines 822-832
roomSizeModes(scale, openingCount) ==
  IF scale >= 12000 \/ openingCount <= 10
    THEN <<"large", "normal", "compact">>
    ELSE <<"normal", "compact">>

\* lines 817-849: the rectangles tryPlaceRoomForDoor can settle on, NoRect
\* when it can return false.  A size mode is reached when every mode before
\* it can fail, by a null rectangle or an overlap.
tryPlaceRoomForDoor(opening) ==
  LET matching == {wall \in hallwayWalls : wall.edge = opening.wallKey}
      hallwayWall == CHOOSE wall \in matching : TRUE
      hallwaySide == classifyHallwayWallSide(hallwayWall.edge, hallwayCells, Bounds)
      attempts == roomSizeModes(roomSizeScale, Len(doorOpenings))
      candidates(i) ==
        buildRoomFromDoor(opening, hallwayWall, hallwaySide, Bounds, attempts[i], roomSizeScale)
      fits(candidate) == candidate # NoRect /\ ~roomCellsOverlap(occupiedCells, candidate)
      canFail(i) == \E candidate \in candidates(i) : ~fits(candidate)
  IN IF matching = {} THEN {NoRect}
     ELSE IF hallwaySide = "none" THEN {NoRect}
     ELSE UNION { IF \A j \in 1..(i - 1) : canFail(j)
                    THEN {candidate \in candidates(i) : fits(candidate)}
                    ELSE {}
                  : i \in 1..Len(attempts) } \cup
          (IF \A j \in 1..Len(attempts) : canFail(j) THEN {NoRect} ELSE {})

\* lines 544-551
countOrthogonalRoomNeighbors(roomCells, x, y) ==
  Cardinality({<<x, y - 1>>, <<x + 1, y>>, <<x, y + 1>>, <<x - 1, y>>} \cap roomCells)

\* lines 553-560
countDiagonalRoomNeighbors(roomCells, x, y) ==
  Cardinality({<<x - 1, y - 1>>, <<x + 1, y - 1>>, <<x + 1, y + 1>>, <<x - 1, y + 1>>}
              \cap roomCells)

\* lines 562-569: four sides a cell less those shared inside the room
computeRoomPerimeterFromCells(roomCells) ==
  4 * Cardinality(roomCells) -
  Cardinality({pair \in roomCells \X {<<0, -1>>, <<1, 0>>, <<0, 1>>, <<-1, 0>>} :
                 <<pair[1][1] + pair[2][1], pair[1][2] + pair[2][2]>> \in roomCells})

\* lines 857-864 without the centroid, which only the candidate score reads
RoomRecord(roomId, roomCells) ==
  [ id        |-> roomId,
    cells     |-> roomCells,
    cellCount |-> Cardinality(roomCells),
    perimeter |-> computeRoomPerimeterFromCells(roomCells) ]

\* lines 571-577 without the loop over the anchors
hasStrongGrowthSupportByDiagonal(room, x, y) ==
  LET orthCount == countOrthogonalRoomNeighbors(room.cells, x, y)
  IN IF orthCount >= 2 THEN TRUE
     ELSE IF orthCount = 0 THEN FALSE
     ELSE countDiagonalRoomNeighbors(room.cells, x, y) >= 1

\* lines 571-594
hasStrongGrowthSupport(room, x, y) ==
  LET orthCount == countOrthogonalRoomNeighbors(room.cells, x, y)
      anchors == {<<x, y - 1>>, <<x + 1, y>>, <<x, y + 1>>, <<x - 1, y>>}
  IN IF orthCount >= 2 THEN TRUE
     ELSE IF orthCount = 0 THEN FALSE
     ELSE IF countDiagonalRoomNeighbors(room.cells, x, y) < 1 THEN FALSE
     ELSE \E anchor \in anchors \cap room.cells :
            countOrthogonalRoomNeighbors(room.cells, anchor[1], anchor[2]) >= 2

\* lines 596-601, in thousandths
maxPerimeterAreaRatioForRoom(area) ==
  IF area < 20 THEN 3200
  ELSE IF area < 40 THEN 2800
  ELSE IF area < 80 THEN 2550
  ELSE 2350

\* lines 660-664 without the loop over the neighbours
isCellClaimableByRoomAnyNeighbor(x, y, roomId, owners, cells, bounds) ==
  /\ ~(x < 0 \/ x >= bounds.cols \/ y < 0 \/ y >= bounds.rows)
  /\ <<x, y>> \notin cells
  /\ <<x, y>> \notin DOMAIN owners

\* lines 660-679 without the test for the grid
isCellClaimableByRoomOffGrid(x, y, roomId, owners, cells, bounds) ==
  /\ <<x, y>> \notin cells
  /\ <<x, y>> \notin DOMAIN owners
  /\ \A neighbor \in {<<x, y - 1>>, <<x + 1, y>>, <<x, y + 1>>, <<x - 1, y>>} :
       neighbor \in DOMAIN owners => owners[neighbor] = roomId

\* lines 660-679
isCellClaimableByRoom(x, y, roomId, owners, cells, bounds) ==
  /\ ~(x < 0 \/ x >= bounds.cols \/ y < 0 \/ y >= bounds.rows)
  /\ <<x, y>> \notin cells
  /\ <<x, y>> \notin DOMAIN owners
  /\ \A neighbor \in {<<x, y - 1>>, <<x + 1, y>>, <<x, y + 1>>, <<x - 1, y>>} :
       neighbor \in DOMAIN owners => owners[neighbor] = roomId

\* lines 710-738: the claimable neighbours of a room's cells
growthCandidates(room) ==
  {neighbor \in UNION {{<<c[1], c[2] - 1>>, <<c[1] + 1, c[2]>>, <<c[1], c[2] + 1>>,
                        <<c[1] - 1, c[2]>>} : c \in room.cells} :
     isCellClaimableByRoom(neighbor[1], neighbor[2], room.id, roomIdByCell,
                           hallwayCells, Bounds)}

\* lines 609-658: the code scores the candidates by neighbour counts and the
\* distance to the centroid and takes the best of all of them or of a random
\* sample; any candidate, or any sampled one, may be the one here
pickGrowthCandidate(room, candidates) ==
  IF sampledIndices = {} THEN candidates ELSE sampledIndices

\* lines 765-774: the picked cell passes the neighbour-support test
growthSupportAccepted(room, picked, shapeStyle) ==
  LET orthNeighbors == countOrthogonalRoomNeighbors(room.cells, picked[1], picked[2])
      diagonalNeighbors == countDiagonalRoomNeighbors(room.cells, picked[1], picked[2])
      minOrthogonalSupport == IF shapeStyle < 35 THEN 2 ELSE 1
  IN ~(\/ orthNeighbors < minOrthogonalSupport
       \/ orthNeighbors = 1 /\ diagonalNeighbors = 0
       \/ orthNeighbors = 1 /\ ~hasStrongGrowthSupport(room, picked[1], picked[2]))

\* lines 765-783: the picked cell passes the support and the ratio test
growthClaimAccepted(room, picked, shapeStyle) ==
  LET orthNeighbors == countOrthogonalRoomNeighbors(room.cells, picked[1], picked[2])
      projectedArea == Cardinality(room.cells) + 1
      projectedPerimeter == room.perimeter + (4 - orthNeighbors * 2)
      maxRatio == maxPerimeterAreaRatioForRoom(projectedArea) + 3 * shapeStyle
      singleEdgePenalty == IF orthNeighbors = 1 THEN 300 ELSE 0
  IN /\ growthSupportAccepted(room, picked, shapeStyle)
     /\ ~(1000 * projectedPerimeter > projectedArea * (maxRatio - singleEdgePenalty))

\* lines 784-790: the room with the picked cell added
growRoom(room, picked) ==
  [ id        |-> room.id,
    cells     |-> room.cells \cup {picked},
    cellCount |-> room.cellCount + 1,
    perimeter |-> room.perimeter +
                  (4 - countOrthogonalRoomNeighbors(room.cells, picked[1], picked[2]) * 2) ]

\* lines 517-542
buildRoomPerimeterWallsFromCells(records, cells) ==
  mergeCollinearWallsWithRoomId(UNION {
    {[edge |-> normalizeEdge(c[1], c[2], c[1] + 1, c[2]), roomId |-> records[i].id]
       : c \in {d \in records[i].cells :
                  <<d[1], d[2] - 1>> \notin records[i].cells \cup cells}} \cup
    {[edge |-> normalizeEdge(c[1], c[2] + 1, c[1] + 1, c[2] + 1), roomId |-> records[i].id]
       : c \in {d \in records[i].cells :
                  <<d[1], d[2] + 1>> \notin records[i].cells \cup cells}} \cup
    {[edge |-> normalizeEdge(c[1], c[2], c[1], c[2] + 1), roomId |-> records[i].id]
       : c \in {d \in records[i].cells :
                  <<d[1] - 1, d[2]>> \notin records[i].cells \cup cells}} \cup
    {[edge |-> normalizeEdge(c[1] + 1, c[2], c[1] + 1, c[2] + 1), roomId |-> records[i].id]
       : c \in {d \in records[i].cells :
                  <<d[1] + 1, d[2]>> \notin records[i].cells \cup cells}}
    : i \in 1..Len(records)})

(***************************************************************************)
(* generateRoomsFromDoors as actions.                                      *)
(***************************************************************************)
\* the room is pushed and its door is not
RecordRoomWithoutDoor(opening, roomRect) ==
  LET roomId == Len(roomRecords) + 1
      roomCells == createRoomCellKeySet(roomRect)
  IN /\ occupiedCells' = occupiedCells \cup roomCells
     /\ roomIdByCell' = [cell \in DOMAIN roomIdByCell \cup roomCells |->
                           IF cell \in roomCells THEN roomId ELSE roomIdByCell[cell]]
     /\ roomRecords' = Append(roomRecords, RoomRecord(roomId, roomCells))
     /\ UNCHANGED connectedDoors

\* lines 851-867: the room of a settled rectangle is recorded
RecordRoom(opening, roomRect) ==
  LET roomId == Len(roomRecords) + 1
      roomCells == createRoomCellKeySet(roomRect)
  IN /\ occupiedCells' = occupiedCells \cup roomCells
     /\ roomIdByCell' = [cell \in DOMAIN roomIdByCell \cup roomCells |->
                           IF cell \in roomCells THEN roomId ELSE roomIdByCell[cell]]
     /\ roomRecords' = Append(roomRecords, RoomRecord(roomId, roomCells))
     /\ connectedDoors' = Append(connectedDoors, opening)

\* the hallway ids of the door openings in the order they first appear
RECURSIVE hallOrder(_, _)
hallOrder(openings, seen) ==
  IF openings = <<>> THEN <<>>
  ELSE IF Head(openings).hallwayId = 0 \/ Head(openings).hallwayId \in seen
    THEN hallOrder(Tail(openings), seen)
    ELSE <<Head(openings).hallwayId>> \o
         hallOrder(Tail(openings), seen \cup {Head(openings).hallwayId})

\* lines 870-872: one round of the placement loop
PlaceRoom ==
  /\ roomPc = "place"
  /\ IF doorIndex > Len(doorOpenings)
       THEN /\ doorIndex' = 1
            /\ roomPc' = "backfill"
            /\ UNCHANGED <<occupiedCells, roomIdByCell, roomRecords, connectedDoors>>
       ELSE /\ \E roomRect \in tryPlaceRoomForDoor(doorOpenings[doorIndex]) :
                 IF roomRect = NoRect
                   THEN UNCHANGED <<occupiedCells, roomIdByCell, roomRecords, connectedDoors>>
                   ELSE RecordRoom(doorOpenings[doorIndex], roomRect)
            /\ doorIndex' = doorIndex + 1
            /\ UNCHANGED roomPc
  /\ UNCHANGED <<hallwayCells, roomSizeScale, growth>>
  /\ UNCHANGED <<rawWalls, hallwayWalls, roomWalls, doorOpenings, exteriorRoomExits,
                 windowOpenings, walls, wallPc>>
  /\ UNCHANGED <<callVars, loopVars>>

\* lines 874-899: one hallway of the backfill loop.  The openings of the
\* hallway are tried in a shuffled order until one gets a room, so any opening
\* that can get one may be the one, and none gets one when all can fail.
BackfillHallway ==
  /\ roomPc = "backfill"
  /\ LET halls == hallOrder(doorOpenings, {})
         connectedHallways == {door.hallwayId : door \in Range(connectedDoors)} \ {0}
         connectedDoorKeys == {door.wallKey : door \in Range(connectedDoors)}
     IN IF doorIndex > Len(halls)
          THEN /\ roomPc' = "grow"
               /\ UNCHANGED <<doorIndex, occupiedCells, roomIdByCell, roomRecords,
                              connectedDoors>>
          ELSE /\ doorIndex' = doorIndex + 1
               /\ UNCHANGED roomPc
               /\ IF halls[doorIndex] \in connectedHallways
                    THEN UNCHANGED <<occupiedCells, roomIdByCell, roomRecords, connectedDoors>>
                    ELSE LET tried == {opening \in Range(doorOpenings) :
                                         /\ opening.hallwayId = halls[doorIndex]
                                         /\ opening.wallKey \notin connectedDoorKeys}
                         IN \/ \E opening \in tried :
                               \E roomRect \in tryPlaceRoomForDoor(opening) \ {NoRect} :
                                 RecordRoom(opening, roomRect)
                            \/ /\ \A opening \in tried : NoRect \in tryPlaceRoomForDoor(opening)
                               /\ UNCHANGED <<occupiedCells, roomIdByCell, roomRecords,
                                              connectedDoors>>
  /\ UNCHANGED <<hallwayCells, roomSizeScale, growth>>
  /\ UNCHANGED <<rawWalls, hallwayWalls, roomWalls, doorOpenings, exteriorRoomExits,
                 windowOpenings, walls, wallPc>>
  /\ UNCHANGED <<callVars, loopVars>>

\* the style of the call in hundredths
ShapeStyle ==
  normalizeShapeStyle(options.roomShapeStyle)

\* lines 709 and 746: the fill target is met, or the run is cut short
GrowthTargetMet ==
  growth.claimed >= growth.target \/ growth.grown >= MaxGrowthClaims

\* lines 682-699
StartGrowth ==
  /\ roomPc = "grow"
  /\ LET planArea == options.cols * options.rows
         nonHallwayArea == Max(1, planArea - Cardinality(hallwayCells))
         \* in ten-thousandths
         targetFillRatio == Max(5000, Min(8600,
           5800 + Max(0, roomSizeScale - 10000) \div 10 + (ShapeStyle - 50) * 16))
         targetRoomCellCount == (nonHallwayArea * targetFillRatio) \div 10000
         claimedRoomCells == Cardinality(DOMAIN roomIdByCell)
         \* Math.ceil(target / Math.max(1, rooms * 2.2))
         perRoom == Max(10, Len(roomRecords) * 22)
         maxPasses == Min(96, Max(40, (10 * targetRoomCellCount + perRoom - 1) \div perRoom))
     IN /\ growth' = [NoGrowth EXCEPT !.target = targetRoomCellCount,
                                      !.claimed = claimedRoomCells,
                                      !.maxPasses = maxPasses]
        /\ roomPc' = IF claimedRoomCells >= targetRoomCellCount THEN "finish" ELSE "pass"
  /\ UNCHANGED <<hallwayCells, occupiedCells, roomRecords, roomIdByCell, roomSizeScale,
                 doorIndex>>
  /\ UNCHANGED wallVars
  /\ UNCHANGED <<callVars, loopVars>>

\* lines 700-706 and 796: the head of a pass, with the shuffled room order
StartPass ==
  /\ roomPc = "pass"
  /\ IF growth.pass >= growth.maxPasses \/ (growth.pass > 0 /\ ~growth.passProgress)
       THEN /\ roomPc' = "finish"
            /\ UNCHANGED growth
       ELSE /\ \E order \in [1..Len(roomRecords) -> 1..Len(roomRecords)] :
                 /\ \A i, j \in 1..Len(roomRecords) : order[i] = order[j] => i = j
                 /\ growth' = [growth EXCEPT !.order = order, !.index = 1,
                                             !.passProgress = FALSE]
            /\ roomPc' = "turn"
  /\ UNCHANGED <<hallwayCells, occupiedCells, roomRecords, roomIdByCell, roomSizeScale,
                 doorIndex>>
  /\ UNCHANGED wallVars
  /\ UNCHANGED <<callVars, loopVars>>

\* lines 708-744: the turn of the next room of the order
StartTurn ==
  /\ roomPc = "turn"
  /\ IF growth.index > Len(growth.order)
       THEN /\ growth' = [growth EXCEPT !.pass = growth.pass + 1]
            /\ roomPc' = "pass"
     ELSE IF GrowthTargetMet
       THEN /\ roomPc' = "finish"
            /\ UNCHANGED growth
     ELSE LET room == roomRecords[growth.order[growth.index]]
              candidates == growthCandidates(room)
              \* Math.round(roomSizeScale * (1.0 + shapeStyle * 0.9))
              claims == (roomSizeScale * (1000 + 9 * ShapeStyle) + 5000000) \div 10000000
          IN IF candidates = {}
               THEN /\ growth' = [growth EXCEPT !.index = growth.index + 1]
                    /\ UNCHANGED roomPc
               ELSE /\ growth' = [growth EXCEPT
                                    !.candidates = candidates,
                                    !.claim = 0,
                                    !.maxClaims = Min(Cardinality(candidates), Max(1, claims))]
                    /\ roomPc' = "claim"
  /\ UNCHANGED <<hallwayCells, occupiedCells, roomRecords, roomIdByCell, roomSizeScale,
                 doorIndex>>
  /\ UNCHANGED wallVars
  /\ UNCHANGED <<callVars, loopVars>>

\* lines 745-793: one round of the claim loop of a room
GrowthClaim ==
  /\ roomPc = "claim"
  /\ IF growth.claim >= growth.maxClaims \/ growth.candidates = {} \/ GrowthTargetMet
       THEN /\ growth' = [growth EXCEPT !.index = growth.index + 1, !.candidates = {}]
            /\ roomPc' = "turn"
            /\ UNCHANGED <<roomRecords, roomIdByCell>>
       ELSE LET roomIndex == growth.order[growth.index]
                room == roomRecords[roomIndex]
            IN \E picked \in pickGrowthCandidate(room, growth.candidates) :
                 /\ UNCHANGED roomPc
                 /\ IF /\ isCellClaimableByRoom(picked[1], picked[2], room.id, roomIdByCell,
                                                hallwayCells, Bounds)
                       /\ growthClaimAccepted(room, picked, ShapeStyle)
                      THEN /\ roomRecords' = [roomRecords EXCEPT
                                                ![roomIndex] = growRoom(room, picked)]
                           /\ roomIdByCell' = [cell \in DOMAIN roomIdByCell \cup {picked} |->
                                                 IF cell = picked THEN room.id
                                                 ELSE roomIdByCell[cell]]
                           /\ growth' = [growth EXCEPT
                                           !.candidates = growth.candidates \ {picked},
                                           !.claim = growth.claim + 1,
                                           !.claimed = growth.claimed + 1,
                                           !.grown = growth.grown + 1,
                                           !.passProgress = TRUE]
                      ELSE /\ growth' = [growth EXCEPT
                                           !.candidates = growth.candidates \ {picked},
                                           !.claim = growth.claim + 1]
                           /\ UNCHANGED <<roomRecords, roomIdByCell>>
  /\ UNCHANGED <<hallwayCells, occupiedCells, roomSizeScale, doorIndex>>
  /\ UNCHANGED wallVars
  /\ sampledIndices' = {}
  /\ UNCHANGED <<callVars, hallwayGroups, hallwayIndex, hallwayAttempt, hallwayPc, pickedWalls,
                 sizeModesTried>>

\* line 903: the perimeter walls of the grown rooms
FinishRooms ==
  /\ roomPc = "finish"
  /\ roomWalls' = buildRoomPerimeterWallsFromCells(roomRecords, hallwayCells)
  /\ roomPc' = "done"
  /\ UNCHANGED <<hallwayCells, occupiedCells, roomRecords, roomIdByCell, roomSizeScale,
                 doorIndex, growth>>
  /\ UNCHANGED <<rawWalls, hallwayWalls, doorOpenings, connectedDoors, exteriorRoomExits,
                 windowOpenings, walls, wallPc>>
  /\ UNCHANGED <<callVars, loopVars>>

RoomsNext ==
  \/ PlaceRoom
  \/ BackfillHallway
  \/ StartGrowth
  \/ StartPass
  \/ StartTurn
  \/ GrowthClaim
  \/ FinishRooms

\* the calls of the room specification, each with the centerline its hallway
\* is carved along: a short elbow with room for one room on each of two sides
\* (doors of 1.2), and a long elbow whose arms face the same corner of the
\* grid (doors of 2.5, which only its four long walls can host)
RoomScenarios ==
  { [shape |-> "L", xA |-> 4, xB |-> 5, xC |-> 3, yA |-> 4, yB |-> 3, yC |-> 3, branchY |-> 3,
     doorWidth |-> Fin(120), width |-> Fin(1200)],
    [shape |-> "L", xA |-> 8, xB |-> 3, xC |-> 3, yA |-> 3, yB |-> 8, yC |-> 3, branchY |-> 3,
     doorWidth |-> Fin(250), width |-> Fin(1200)] }

\* a call on a grid of 17 x 12 whose elbow has a long arm below and a short arm on
\* the right: the room above the long arm and the room left of the short arm are
\* placed in the same corner (doors of 2.5)
AdjoiningScenario ==
  [shape |-> "L", xA |-> 3, xB |-> 13, xC |-> 3, yA |-> 8, yB |-> 3, yC |-> 3, branchY |-> 3,
   doorWidth |-> Fin(250), width |-> Fin(1700)]

\* the door lists of the room specification: the walls in list order or in
\* the reverse order, every offset at the same end of its range
DoorDrawKept(openings) ==
  LET before(i, j) ==
        WallBefore([edge |-> openings[i].wallKey, hallwayId |-> 0, roomId |-> 0],
                   [edge |-> openings[j].wallKey, hallwayId |-> 0, roomId |-> 0])
  IN /\ \/ \A i, j \in 1..Len(openings) : i < j => before(i, j)
        \/ \A i, j \in 1..Len(openings) : i < j => before(j, i)
     /\ \/ \A i \in 1..Len(openings) : openings[i].start = 10
        \/ \A i \in 1..Len(openings) : openings[i].start > 10

\* The head of generateRoomsFromDoors for one scale variant of a call for two
\* doors on the smallest grid: the hallway is carved along the centerline of
\* the draw, its walls are built and the door openings are chosen.
RoomsStart(draw, shapeStyle, variants) ==
  /\ userOptions = [CallerOptions(2, 1, "false", "false")
                      EXCEPT !.width = draw.width, !.height = Fin(1200),
                             !.doorWidth = draw.doorWidth,
                             !.roomShapeStyle = shapeStyle]
  /\ options = NormalizeOptions(userOptions)
  /\ IsCenterlineDraw(draw.shape, draw, Bounds)
  /\ hallwayCells = generateHallwayCells(Bounds, draw.shape, 3, draw)
  /\ pc = "scale"
  /\ attemptIndex = 0
  /\ bestAttempt = NoAttempt
  /\ attempt = NoAttempt
  /\ variantIndex \in variants
  /\ best = NoVariant
  /\ variantCandidate = NoVariant
  /\ outcome = NoOutcome
  /\ hallwayWalls = { [edge |-> wall.edge,
                       hallwayId |-> getHallwayIdForWall(wall.edge, hallwayCells, Bounds),
                       roomId |-> 0]
                      : wall \in buildHallwayWalls(Bounds, hallwayCells) }
  /\ doorOpenings \in {openings \in chooseDoorOpenings(hallwayWalls, 1, options) :
                         DoorDrawKept(openings)}
  /\ doorOpeningCount = Len(doorOpenings)
  /\ roomSizeScale = scaleCandidate(deriveLayoutScale(options), variantIndex)
  /\ occupiedCells = hallwayCells
  /\ roomRecords = <<>>
  /\ roomIdByCell = <<>>
  /\ connectedDoors = <<>>
  /\ doorIndex = 1
  /\ growth = NoGrowth
  /\ roomPc = "place"
  /\ rawWalls = {}
  /\ roomWalls = {}
  /\ exteriorRoomExits = <<>>
  /\ windowOpenings = <<>>
  /\ walls = <<>>
  /\ wallPc = "idle"
  /\ LoopsIdle

\* Calls with the default shape style: every scale variant of the calls on the
\* smallest grid
SmallGridRoomsInit ==
  \E draw \in RoomScenarios :
    RoomsStart(draw, DEFAULT_OPTIONS.roomShapeStyle, 0..(ScaleCandidateCount - 1))

\* and the last variant of the call on the wider grid, and of a call on the
\* smallest grid with roomShapeStyle 1, a style of 0.01
RoomsInit ==
  \/ SmallGridRoomsInit
  \/ \E draw \in RoomScenarios : RoomsStart(draw, Fin(100), {ScaleCandidateCount - 1})
  \/ RoomsStart(AdjoiningScenario, DEFAULT_OPTIONS.roomShapeStyle, {ScaleCandidateCount - 1})

SpecRooms ==
  RoomsInit /\ [][RoomsNext]_vars

(***************************************************************************)
(* buildHallwayGroups as actions: one round of the retry loop at a time.   *)
(* A group is [id, shape, cells] with id n for hall-n.                     *)
(***************************************************************************)
\* Largest hallwayCount the hallway specification asks for.
MaxHallwayCount ==
  3

\* line 185
maxAttemptsPerHallway ==
  12

\* line 186
minUniqueCellsPerHallway ==
  10

\* lines 192 and 117-147: the shapes and random integers kept for a carve on
\* the 12x12 grid: an elbow whose three points coincide (nine cells), the
\* short elbow, a T, a U and an S that cross the middle of the grid
HallwayDraws ==
  { [shape |-> "L", xA |-> 5, xB |-> 5, xC |-> 3, yA |-> 5, yB |-> 5, yC |-> 3, branchY |-> 5],
    [shape |-> "L", xA |-> 4, xB |-> 5, xC |-> 3, yA |-> 4, yB |-> 3, yC |-> 3, branchY |-> 3],
    [shape |-> "T", xA |-> 6, xB |-> 3, xC |-> 8, yA |-> 3, yB |-> 8, yC |-> 3, branchY |-> 5],
    [shape |-> "U", xA |-> 3, xB |-> 8, xC |-> 3, yA |-> 6, yB |-> 7, yC |-> 8, branchY |-> 6],
    [shape |-> "S", xA |-> 3, xB |-> 6, xC |-> 8, yA |-> 8, yB |-> 3, yC |-> 5, branchY |-> 3] }

\* lines 199-203 and 214-218: the group pushed for a carved footprint
HallwayGroup(shape, candidate) ==
  [id |-> Len(hallwayGroups) + 1, shape |-> shape, cells |-> candidate]

\* lines 189-208: one round of the retry loop of the hallway being carved
CarveHallway ==
  /\ hallwayPc = "carve"
  /\ hallwayIndex < options.hallwayCount
  /\ hallwayAttempt < maxAttemptsPerHallway
  /\ \E draw \in HallwayDraws :
       LET candidate == generateHallwayCells(Bounds, draw.shape, 3, draw)
       IN /\ IsCenterlineDraw(draw.shape, draw, Bounds)
          /\ IF Cardinality(candidate) < minUniqueCellsPerHallway
               THEN /\ hallwayAttempt' = hallwayAttempt + 1
                    /\ UNCHANGED <<hallwayCells, hallwayGroups, hallwayIndex, hallwayPc>>
               ELSE /\ hallwayCells' = hallwayCells \cup candidate
                    /\ hallwayGroups' = Append(hallwayGroups, HallwayGroup(draw.shape, candidate))
                    /\ hallwayIndex' = hallwayIndex + 1
                    /\ hallwayAttempt' = 0
                    /\ hallwayPc' = IF hallwayIndex + 1 < options.hallwayCount
                                      THEN "carve" ELSE "done"
  /\ UNCHANGED <<occupiedCells, roomRecords, roomIdByCell, roomSizeScale, doorIndex, growth,
                 roomPc, pickedWalls, sampledIndices, sizeModesTried>>
  /\ UNCHANGED <<callVars, wallVars>>

\* the retry loop of a hallway ran out and nothing is carved in its place
HallwayFallbackKeepsNothing ==
  /\ hallwayPc = "carve"
  /\ hallwayIndex < options.hallwayCount
  /\ hallwayAttempt >= maxAttemptsPerHallway
  /\ hallwayIndex' = hallwayIndex + 1
  /\ hallwayAttempt' = 0
  /\ hallwayPc' = IF hallwayIndex + 1 < options.hallwayCount THEN "carve" ELSE "done"
  /\ UNCHANGED <<hallwayCells, hallwayGroups, pickedWalls, sampledIndices, sizeModesTried>>
  /\ UNCHANGED <<occupiedCells, roomRecords, roomIdByCell, roomSizeScale, doorIndex, growth,
                 roomPc>>
  /\ UNCHANGED <<callVars, wallVars>>

\* lines 210-221: the retry loop of a hallway ran out; the first hallway is
\* carved once more and kept whatever its size
HallwayFallback ==
  /\ hallwayPc = "carve"
  /\ hallwayIndex < options.hallwayCount
  /\ hallwayAttempt >= maxAttemptsPerHallway
  /\ IF Len(hallwayGroups) = 0
       THEN \E draw \in HallwayDraws :
              LET fallback == generateHallwayCells(Bounds, draw.shape, 3, draw)
              IN /\ IsCenterlineDraw(draw.shape, draw, Bounds)
                 /\ hallwayCells' = hallwayCells \cup fallback
                 /\ hallwayGroups' = Append(hallwayGroups, HallwayGroup(draw.shape, fallback))
       ELSE UNCHANGED <<hallwayCells, hallwayGroups>>
  /\ hallwayIndex' = hallwayIndex + 1
  /\ hallwayAttempt' = 0
  /\ hallwayPc' = IF hallwayIndex + 1 < options.hallwayCount THEN "carve" ELSE "done"
  /\ UNCHANGED <<occupiedCells, roomRecords, roomIdByCell, roomSizeScale, doorIndex, growth,
                 roomPc, pickedWalls, sampledIndices, sizeModesTried>>
  /\ UNCHANGED <<callVars, wallVars>>

HallwaysNext ==
  \/ CarveHallway
  \/ HallwayFallback

\* lines 1208-1224: the hallways of the plan
buildHallwayMetadata(groups) ==
  SelectSeq(groups, LAMBDA group : Cardinality(group.cells) > 0)

\* A call on the smallest grid at the head of buildHallwayGroups, for every
\* hallway count up to MaxHallwayCount.
HallwaysInit ==
  /\ \E hallwayCount \in 1..MaxHallwayCount :
       userOptions = [CallerOptions(2, hallwayCount, "false", "false")
                        EXCEPT !.width = Fin(1200), !.height = Fin(1200)]
  /\ options = NormalizeOptions(userOptions)
  /\ pc = "attempt"
  /\ attemptIndex = 0
  /\ bestAttempt = NoAttempt
  /\ attempt = NoAttempt
  /\ doorOpeningCount = 0
  /\ variantIndex = 0
  /\ best = NoVariant
  /\ variantCandidate = NoVariant
  /\ outcome = NoOutcome
  /\ WallsIdle
  /\ hallwayCells = {}
  /\ occupiedCells = {}
  /\ roomRecords = <<>>
  /\ roomIdByCell = <<>>
  /\ roomSizeScale = 0
  /\ doorIndex = 0
  /\ growth = NoGrowth
  /\ roomPc = "idle"
  /\ hallwayGroups = <<>>
  /\ hallwayIndex = 0
  /\ hallwayAttempt = 0
  /\ hallwayPc = "carve"
  /\ pickedWalls = <<>>
  /\ sampledIndices = {}
  /\ sizeModesTried = NoModesTried

SpecHallways ==
  HallwaysInit /\ [][HallwaysNext]_vars

(***************************************************************************)
(* The sampling loop of pickGrowthCandidate, one draw at a time.  A        *)
(* candidate stands for its index in the candidates array.                 *)
(***************************************************************************)
\* lines 626-629: Math.min(candidates.length, Math.max(8, Math.round(12 + shapeStyle * 16)))
sampleSize(candidates, shapeStyle) ==
  Min(Cardinality(candidates), Max(8, (1200 + 16 * shapeStyle + 50) \div 100))

\* lines 745-748 and 630: the claim loop calls pickGrowthCandidate with more
\* candidates than the sample takes
SamplingCandidates ==
  /\ roomPc = "claim"
  /\ ~(growth.claim >= growth.maxClaims \/ growth.candidates = {} \/ GrowthTargetMet)
  /\ sampleSize(growth.candidates, ShapeStyle) < Cardinality(growth.candidates)

\* lines 646-656: one round of the sampling loop; a draw of an index that is
\* already sampled leaves everything as it is
SampleCandidate ==
  /\ SamplingCandidates
  /\ Cardinality(sampledIndices) < sampleSize(growth.candidates, ShapeStyle)
  /\ \E pickIndex \in growth.candidates :
       sampledIndices' = sampledIndices \cup {pickIndex}
  /\ UNCHANGED <<hallwayGroups, hallwayIndex, hallwayAttempt, hallwayPc, pickedWalls,
                 sizeModesTried>>
  /\ UNCHANGED <<callVars, wallVars, roomVars>>

\* lines 745-793 with the sampling loop of line 747 run to its end
GrowthClaimSampled ==
  /\ SamplingCandidates =>
       Cardinality(sampledIndices) >= sampleSize(growth.candidates, ShapeStyle)
  /\ GrowthClaim

(***************************************************************************)
(* chooseDoorOpenings as actions: the seeding loop, the pick loop one      *)
(* draw at a time, and the offsets.                                        *)
(***************************************************************************)
\* line 969
doorCandidates ==
  {wall \in hallwayWalls : edgeLength(wall.edge) >= options.doorWidth + 80}

\* maxDoors without the cap at the number of candidates
maxDoorsUncapped ==
  Max(options.doorCount * 2, Len(hallwayGroups))

\* maxDoors without the number of hallway groups
maxDoorsTwiceTheDoors ==
  Min(options.doorCount * 2, Cardinality(doorCandidates))

\* lines 975-978
maxDoors ==
  Min(Max(options.doorCount * 2, Len(hallwayGroups)), Cardinality(doorCandidates))

\* lines 990-1002: the lists the seeding loop can leave in picked, one random
\* candidate of every hallway that has one
RECURSIVE SeedPicks(_, _)
SeedPicks(hallwayIds, picked) ==
  IF hallwayIds = <<>> \/ Len(picked) >= maxDoors THEN {picked}
  ELSE LET candidates == {wall \in doorCandidates : wall.hallwayId = Head(hallwayIds)}
           pickedSet == {wall.edge : wall \in Range(picked)}
       IN IF candidates = {} THEN SeedPicks(Tail(hallwayIds), picked)
          ELSE UNION { SeedPicks(Tail(hallwayIds),
                                 IF candidate.edge \in pickedSet
                                   THEN picked ELSE Append(picked, candidate))
                       : candidate \in candidates }

\* lines 1012-1025: the lists of openings the picked walls can get
RECURSIVE OpeningsOfPicked(_, _)
OpeningsOfPicked(picked, chosen) ==
  IF picked = <<>> THEN {chosen}
  ELSE UNION { OpeningsOfPicked(Tail(picked),
                                Append(chosen, OpeningOn(Head(picked), "door",
                                                         options.doorWidth, offset, 0)))
               : offset \in OffsetsOn(Head(picked), options.doorWidth, 10, chosen) }

\* lines 969-1002: the early return and the seeding loop
SeedDoors ==
  /\ wallPc = "seed"
  /\ IF doorCandidates = {} \/ options.doorCount <= 0
       THEN /\ wallPc' = "picked"
            /\ UNCHANGED pickedWalls
       ELSE /\ wallPc' = "pick"
            /\ pickedWalls' \in
                 SeedPicks([i \in 1..Min(Len(hallwayGroups), maxDoors) |-> hallwayGroups[i].id],
                           <<>>)
  /\ UNCHANGED <<rawWalls, hallwayWalls, roomWalls, doorOpenings, connectedDoors,
                 exteriorRoomExits, windowOpenings, walls>>
  /\ UNCHANGED <<hallwayGroups, hallwayIndex, hallwayAttempt, hallwayPc, sampledIndices, sizeModesTried>>
  /\ UNCHANGED <<callVars, roomVars>>

\* lines 1004-1010: one round of the pick loop; a draw of a wall whose key is
\* already picked leaves everything as it is
PickDoor ==
  /\ wallPc = "pick"
  /\ Len(pickedWalls) < maxDoors
  /\ \E candidate \in doorCandidates :
       pickedWalls' = IF candidate.edge \in {wall.edge : wall \in Range(pickedWalls)}
                        THEN pickedWalls
                        ELSE Append(pickedWalls, candidate)
  /\ UNCHANGED <<hallwayGroups, hallwayIndex, hallwayAttempt, hallwayPc, sampledIndices, sizeModesTried>>
  /\ UNCHANGED <<callVars, wallVars, roomVars>>

\* lines 1012-1025: the pick loop is over; every picked wall gets its opening
PlaceDoorOpenings ==
  /\ wallPc = "pick"
  /\ Len(pickedWalls) >= maxDoors
  /\ doorOpenings' \in OpeningsOfPicked(pickedWalls, <<>>)
  /\ wallPc' = "picked"
  /\ UNCHANGED <<rawWalls, hallwayWalls, roomWalls, connectedDoors, exteriorRoomExits,
                 windowOpenings, walls>>
  /\ UNCHANGED loopVars
  /\ UNCHANGED <<callVars, roomVars>>

\* lines 240-255 and 326-351: the id of the hallway group on the hallway side
\* of the wall, 0 for null; the group stamped last owns a cell
getHallwayIdForWallOfGroups(edge, groups, bounds) ==
  LET cells == UNION {groups[i].cells : i \in 1..Len(groups)}
      side == classifyHallwayWallSide(edge, cells, bounds)
      sample == IF edge.y1 = edge.y2
                  THEN LET sampleX == Max(0, (edge.x1 + edge.x2) \div 2)
                       IN IF side = "north" THEN <<sampleX, edge.y1>>
                          ELSE <<sampleX, edge.y1 - 1>>
                  ELSE LET sampleY == Max(0, (edge.y1 + edge.y2) \div 2)
                       IN IF side = "west" THEN <<edge.x1, sampleY>>
                          ELSE <<edge.x1 - 1, sampleY>>
      owners == {i \in 1..Len(groups) : sample \in groups[i].cells}
  IN IF side = "none" THEN 0
     ELSE groups[CHOOSE i \in owners : \A j \in owners : j <= i].id

\* A call on the smallest grid at the head of chooseDoorOpenings: the hallways
\* are carved along the centerlines of the draws and their walls are built.
PickStart(doorCount, draws, doorWidth) ==
  /\ userOptions = [CallerOptions(doorCount, Len(draws), "false", "false")
                      EXCEPT !.width = Fin(1200), !.height = Fin(1200),
                             !.doorWidth = doorWidth]
  /\ options = NormalizeOptions(userOptions)
  /\ \A i \in 1..Len(draws) : IsCenterlineDraw(draws[i].shape, draws[i], Bounds)
  /\ hallwayGroups = [i \in 1..Len(draws) |->
                        [id |-> i, shape |-> draws[i].shape,
                         cells |-> generateHallwayCells(Bounds, draws[i].shape, 3, draws[i])]]
  /\ hallwayCells = UNION {hallwayGroups[i].cells : i \in 1..Len(hallwayGroups)}
  /\ pc = "attempt"
  /\ attemptIndex = 0
  /\ bestAttempt = NoAttempt
  /\ attempt = NoAttempt
  /\ doorOpeningCount = 0
  /\ variantIndex = 0
  /\ best = NoVariant
  /\ variantCandidate = NoVariant
  /\ outcome = NoOutcome
  /\ rawWalls = {}
  /\ hallwayWalls = { [edge |-> wall.edge,
                       hallwayId |-> getHallwayIdForWallOfGroups(wall.edge, hallwayGroups,
                                                                 Bounds),
                       roomId |-> 0]
                      : wall \in buildHallwayWalls(Bounds, hallwayCells) }
  /\ roomWalls = {}
  /\ doorOpenings = <<>>
  /\ connectedDoors = <<>>
  /\ exteriorRoomExits = <<>>
  /\ windowOpenings = <<>>
  /\ walls = <<>>
  /\ wallPc = "seed"
  /\ occupiedCells = {}
  /\ roomRecords = <<>>
  /\ roomIdByCell = <<>>
  /\ roomSizeScale = 0
  /\ doorIndex = 0
  /\ growth = NoGrowth
  /\ roomPc = "idle"
  /\ hallwayIndex = Len(draws)
  /\ hallwayAttempt = 0
  /\ hallwayPc = "done"
  /\ pickedWalls = <<>>
  /\ sampledIndices = {}
  /\ sizeModesTried = NoModesTried

\* calls for no, one, two or three doors with one hallway
PickInit ==
  \E doorCount \in 0..3, draw \in RoomScenarios :
    PickStart(doorCount, <<draw>>, draw.doorWidth)

\* three hallways on the smallest grid: an elbow in the upper left, a bar
\* along the bottom and a bar down the right side
ThreeHallwayDraws ==
  << [shape |-> "L", xA |-> 3, xB |-> 4, xC |-> 3, yA |-> 3, yB |-> 4, yC |-> 3, branchY |-> 3],
     [shape |-> "L", xA |-> 3, xB |-> 5, xC |-> 3, yA |-> 8, yB |-> 8, yC |-> 3, branchY |-> 3],
     [shape |-> "L", xA |-> 8, xB |-> 8, xC |-> 3, yA |-> 3, yB |-> 5, yC |-> 3, branchY |-> 3] >>

\* and calls for one or two doors with three hallways (doors of 1.2)
ManyHallwaysPickInit ==
  \/ PickInit
  \/ \E doorCount \in 1..2 : PickStart(doorCount, ThreeHallwayDraws, Fin(120))

PickNext ==
  \/ SeedDoors
  \/ PickDoor
  \/ PlaceDoorOpenings

SpecPick ==
  ManyHallwaysPickInit /\ [][PickNext]_vars

(***************************************************************************)
(* Termination.  The specification puts the loops side by side: the call's *)
(* own loops, the hallway retry loop, the pick loop, and the placement and *)
(* growth of rooms with the sampling loop inside.  A draw the code rejects *)
(* changes only the generator's state, which is not part of the model, so  *)
(* it is a stuttering step; createRng (lines 23-31) is a xorshift of full  *)
(* period, so a loop that waits for an index it has not seen gets one.     *)
(* That is the weak fairness of the next-state relation.                   *)
(***************************************************************************)
\* the hallway the sampling loop is shown on: a straight piece whose upper
\* wall has length 4, six cells below the upper edge of the grid, so that the
\* room on it is 4 wide and 5 or 6 deep
SamplingScenario ==
  [shape |-> "L", xA |-> 3, xB |-> 4, xC |-> 3, yA |-> 7, yB |-> 7, yC |-> 3, branchY |-> 3,
   doorWidth |-> Fin(120), width |-> Fin(1200)]

\* roomShapeStyle 0.01: pickGrowthCandidate samples 12 of more than 12 candidates
SamplingStyle ==
  Fin(100)

\* generateFloorPlan's own steps, taken while no inner loop is shown
CallStep ==
  /\ hallwayPc = "idle"
  /\ wallPc = "idle"
  /\ roomPc = "idle"
  /\ CallNext

\* the calls for at most one door that pass both flags (a flag left out counts
\* as true, lines 1317-1318)
FlaggedPlanInit ==
  /\ \E counts \in DoorAndHallwayCounts, strict \in {"true", "false"}, exits \in {"true", "false"} :
       /\ counts[1] <= 1
       /\ userOptions = CallerOptions(counts[1], counts[2], strict, exits)
  /\ CallInit

TermInit ==
  \/ FlaggedPlanInit
  \/ HallwaysInit
  \/ PickInit
  \/ SmallGridRoomsInit
  \/ RoomsStart(SamplingScenario, SamplingStyle, {ScaleCandidateCount - 1})

TermNext ==
  \/ CallStep
  \/ HallwaysNext
  \/ PickNext
  \/ PlaceRoom
  \/ BackfillHallway
  \/ StartGrowth
  \/ StartPass
  \/ StartTurn
  \/ SampleCandidate
  \/ GrowthClaimSampled

SpecTerm ==
  TermInit /\ [][TermNext]_vars /\ WF_vars(TermNext)

\* the call returned or threw, or the loop shown ran to its end (growRoomCells
\* has returned when roomPc is "finish")
Terminated ==
  \/ pc = "done"
  \/ hallwayPc = "done" /\ wallPc = "idle"
  \/ wallPc = "picked"
  \/ roomPc = "finish"

(***************************************************************************)
(* growRoomCells one pass at a time.  Which cells a pass claims is left    *)
(* out here: the pass claims some number of cells, at most the claims the  *)
(* rooms may make in their turns and at most what the target leaves, and   *)
(* only the counters of growRoomCells are followed.                        *)
(***************************************************************************)
\* lines 741-744: the claims a room may make in its turn of a pass
claimsPerTurn ==
  Max(1, (roomSizeScale * (1000 + 9 * ShapeStyle) + 5000000) \div 10000000)

\* line 796 as `if (passProgress) break`
GrowthPassEndsOnProgress(claims) ==
  claims > 0

\* lines 796 and 700: the pass made no claim, or it was the last pass
GrowthPassEnds(claims) ==
  claims = 0 \/ growth.pass + 1 >= growth.maxPasses

\* lines 745-792 without the target test of line 746
passClaimsPastTarget ==
  0..(Len(roomRecords) * claimsPerTurn)

\* lines 745-792: the numbers of cells a pass can claim; every claim is made
\* below the target (line 746) and a turn makes at most claimsPerTurn claims
passClaims ==
  0..Min(growth.target - growth.claimed, Len(roomRecords) * claimsPerTurn)

\* lines 700-797: one pass over the rooms.  The target is reached in the pass
\* and the next turn returns (line 709), or the pass ends and the loop goes on
\* or stops.
GrowthPass ==
  /\ roomPc = "pass"
  /\ \E claims \in passClaims :
       IF growth.claimed + claims >= growth.target
         THEN /\ growth' = [growth EXCEPT !.claimed = growth.claimed + claims,
                                          !.passProgress = TRUE]
              /\ roomPc' = "finish"
         ELSE /\ growth' = [growth EXCEPT !.claimed = growth.claimed + claims,
                                          !.pass = growth.pass + 1,
                                          !.passProgress = claims > 0]
              /\ roomPc' = IF GrowthPassEnds(claims) THEN "finish" ELSE "pass"
  /\ UNCHANGED <<hallwayCells, occupiedCells, roomRecords, roomIdByCell, roomSizeScale,
                 doorIndex>>
  /\ UNCHANGED wallVars
  /\ UNCHANGED <<callVars, loopVars>>

PassesNext ==
  \/ PlaceRoom
  \/ BackfillHallway
  \/ StartGrowth
  \/ GrowthPass

\* a call on a grid of 13 x 12 whose hallway runs down the middle, with room
\* for a rectangle five cells deep on either side (doors of 2.5)
FacingScenario ==
  [shape |-> "L", xA |-> 6, xB |-> 6, xC |-> 3, yA |-> 3, yB |-> 8, yC |-> 3, branchY |-> 3,
   doorWidth |-> Fin(250), width |-> Fin(1300)]

\* the first scale variant of the calls on the smallest grid and of the call
\* with the hallway in the middle
PassesInit ==
  \E draw \in RoomScenarios \cup {FacingScenario} :
    RoomsStart(draw, DEFAULT_OPTIONS.roomShapeStyle, {0})

SpecPasses ==
  PassesInit /\ [][PassesNext]_vars

(***************************************************************************)
(* tryPlaceRoomForDoor as actions: the loop over the size modes one round  *)
(* at a time.                                                              *)
(***************************************************************************)
\* lines 818-821: the wall of the door is found and has the hallway on one side
RoomAttempted(opening) ==
  LET matching == {wall \in hallwayWalls : wall.edge = opening.wallKey}
  IN /\ matching # {}
     /\ classifyHallwayWallSide((CHOOSE wall \in matching : TRUE).edge, hallwayCells, Bounds)
          # "none"

\* lines 822-832: attempts
sizeModeAttempts ==
  roomSizeModes(roomSizeScale, Len(doorOpenings))

\* the size modes tried so far for the door the placement loop is at
modesTriedForDoor ==
  IF sizeModesTried.door = doorIndex THEN sizeModesTried.modes ELSE <<>>

\* lines 835-867: one round of the loop over attempts: one rectangle is drawn
\* in the next size mode; the room is recorded when the rectangle exists and
\* overlaps nothing
TryRoomSizeMode ==
  /\ roomPc = "place"
  /\ doorIndex <= Len(doorOpenings)
  /\ RoomAttempted(doorOpenings[doorIndex])
  /\ Len(modesTriedForDoor) < Len(sizeModeAttempts)
  /\ LET opening == doorOpenings[doorIndex]
         hallwayWall == CHOOSE wall \in hallwayWalls : wall.edge = opening.wallKey
         hallwaySide == classifyHallwayWallSide(hallwayWall.edge, hallwayCells, Bounds)
         mode == sizeModeAttempts[Len(modesTriedForDoor) + 1]
     IN /\ sizeModesTried' = [door |-> doorIndex, modes |-> Append(modesTriedForDoor, mode)]
        /\ \E candidate \in buildRoomFromDoor(opening, hallwayWall, hallwaySide, Bounds, mode,
                                              roomSizeScale) :
             IF candidate = NoRect \/ roomCellsOverlap(occupiedCells, candidate)
               THEN UNCHANGED <<occupiedCells, roomIdByCell, roomRecords, connectedDoors,
                                doorIndex>>
               ELSE /\ RecordRoom(opening, candidate)
                    /\ doorIndex' = doorIndex + 1
  /\ UNCHANGED <<hallwayCells, roomSizeScale, growth, roomPc>>
  /\ UNCHANGED <<rawWalls, hallwayWalls, roomWalls, doorOpenings, exteriorRoomExits,
                 windowOpenings, walls, wallPc>>
  /\ UNCHANGED <<callVars, hallwayGroups, hallwayIndex, hallwayAttempt, hallwayPc, pickedWalls,
                 sampledIndices>>

\* lines 819, 821 and 850: tryPlaceRoomForDoor returns false
LeaveDoor ==
  /\ roomPc = "place"
  /\ doorIndex <= Len(doorOpenings)
  /\ \/ ~RoomAttempted(doorOpenings[doorIndex])
     \/ Len(modesTriedForDoor) = Len(sizeModeAttempts)
  /\ doorIndex' = doorIndex + 1
  /\ UNCHANGED <<hallwayCells, occupiedCells, roomRecords, roomIdByCell, roomSizeScale, growth,
                 roomPc>>
  /\ UNCHANGED <<callVars, wallVars, loopVars>>

\* lines 870-872: the placement loop is through the door openings
PlacementDone ==
  /\ roomPc = "place"
  /\ doorIndex > Len(doorOpenings)
  /\ doorIndex' = 1
  /\ roomPc' = "backfill"
  /\ UNCHANGED <<hallwayCells, occupiedCells, roomRecords, roomIdByCell, roomSizeScale, growth>>
  /\ UNCHANGED <<callVars, wallVars, loopVars>>

PlaceNext ==
  \/ TryRoomSizeMode
  \/ LeaveDoor
  \/ PlacementDone

\* The attempt of a call with several hallways up to its first scale
\* variant: the hallways are carved along the centerlines of the draws and
\* chooseDoorOpenings takes the candidate walls in the order of the wall list,
\* each door at the start of its range.
AttemptStart(doorCount, draws, doorWidth, width) ==
  /\ userOptions = [CallerOptions(doorCount, Len(draws), "false", "false")
                      EXCEPT !.width = width, !.height = Fin(1200),
                             !.doorWidth = doorWidth]
  /\ options = NormalizeOptions(userOptions)
  /\ \A i \in 1..Len(draws) : IsCenterlineDraw(draws[i].shape, draws[i], Bounds)
  /\ hallwayGroups = [i \in 1..Len(draws) |->
                        [id |-> i, shape |-> draws[i].shape,
                         cells |-> generateHallwayCells(Bounds, draws[i].shape, 3, draws[i])]]
  /\ hallwayCells = UNION {hallwayGroups[i].cells : i \in 1..Len(hallwayGroups)}
  /\ pc = "scale"
  /\ attemptIndex = 0
  /\ bestAttempt = NoAttempt
  /\ attempt = NoAttempt
  /\ variantIndex = 0
  /\ best = NoVariant
  /\ variantCandidate = NoVariant
  /\ outcome = NoOutcome
  /\ hallwayWalls = { [edge |-> wall.edge,
                       hallwayId |-> getHallwayIdForWallOfGroups(wall.edge, hallwayGroups,
                                                                 Bounds),
                       roomId |-> 0]
                      : wall \in buildHallwayWalls(Bounds, hallwayCells) }
  /\ LET candidates ==
           WallList({wall \in hallwayWalls : edgeLength(wall.edge) >= options.doorWidth + 80})
         count == chooseDoorOpeningsCount(Len(candidates), Len(hallwayGroups), options)
     IN doorOpenings = [i \in 1..count |->
                          OpeningOn(candidates[i], "door", options.doorWidth, 10, 0)]
  /\ doorOpeningCount = Len(doorOpenings)
  /\ roomSizeScale = scaleCandidate(deriveLayoutScale(options), variantIndex)
  /\ rawWalls = {}
  /\ roomWalls = {}
  /\ exteriorRoomExits = <<>>
  /\ windowOpenings = <<>>
  /\ walls = <<>>
  /\ wallPc = "idle"
  /\ hallwayIndex = Len(draws)
  /\ hallwayAttempt = 0
  /\ hallwayPc = "done"
  /\ pickedWalls = <<>>
  /\ sampledIndices = {}
  /\ sizeModesTried = NoModesTried

\* lines 800-816: the head of generateRoomsFromDoors for that variant
PlaceStart(doorCount, draws, doorWidth, width) ==
  /\ AttemptStart(doorCount, draws, doorWidth, width)
  /\ occupiedCells = hallwayCells
  /\ roomRecords = <<>>
  /\ roomIdByCell = <<>>
  /\ connectedDoors = <<>>
  /\ doorIndex = 1
  /\ growth = NoGrowth
  /\ roomPc = "place"

\* three hallways that share no wall line: an elbow in the upper left, a bar
\* along the bottom and a bar down the middle
ApartHallwayDraws ==
  << [shape |-> "L", xA |-> 3, xB |-> 4, xC |-> 3, yA |-> 3, yB |-> 4, yC |-> 3, branchY |-> 3],
     [shape |-> "L", xA |-> 3, xB |-> 5, xC |-> 3, yA |-> 8, yB |-> 8, yC |-> 3, branchY |-> 3],
     [shape |-> "L", xA |-> 9, xB |-> 9, xC |-> 3, yA |-> 3, yB |-> 5, yC |-> 3, branchY |-> 3] >>

\* the calls for two doors with one hallway on the smallest grid, and a call
\* for six doors with three hallways on a grid of 18 x 12 (doors of 1.2)
PlaceInit ==
  \/ SmallGridRoomsInit
  \/ PlaceStart(6, ApartHallwayDraws, Fin(120), Fin(1800))

SpecPlace ==
  PlaceInit /\ [][PlaceNext]_vars

(***************************************************************************)
(* chooseExteriorExitOpenings on the rooms of a scale variant.  A centre   *)
(* coordinate is kept in thousandths of a cell.                            *)
(***************************************************************************)
\* the sum of one coordinate of the cells
RECURSIVE SumOfCoordinate(_, _)
SumOfCoordinate(cells, axis) ==
  IF cells = {} THEN 0
  ELSE LET cell == CHOOSE c \in cells : TRUE
       IN cell[axis] + SumOfCoordinate(cells \ {cell}, axis)

\* lines 470-499: labelX and labelY are the mean of the cell centres
buildRoomDataFromCells(roomId, roomCells) ==
  LET count == Max(1, Cardinality(roomCells))
  IN [ id     |-> roomId,
       labelX |-> (1000 * SumOfCoordinate(roomCells, 1) + 500 * Cardinality(roomCells)) \div count,
       labelY |-> (1000 * SumOfCoordinate(roomCells, 2) + 500 * Cardinality(roomCells)) \div count ]

\* line 902: rooms
roomsData ==
  [i \in 1..Len(roomRecords) |-> buildRoomDataFromCells(roomRecords[i].id, roomRecords[i].cells)]

\* lines 1069-1071: distSq of the centres of two rooms
centerDistanceSq(rooms, firstId, secondId) ==
  LET dx == rooms[firstId].labelX - rooms[secondId].labelX
      dy == rooms[firstId].labelY - rooms[secondId].labelY
  IN dx * dx + dy * dy

\* the first two rooms with an eligible wall, whatever their centres
selectedRoomIdsFirstTwo(roomIds, rooms) ==
  LET firstId == CHOOSE id \in roomIds : \A other \in roomIds : id <= other
      secondId == CHOOSE id \in roomIds \ {firstId} :
                    \A other \in roomIds \ {firstId} : id <= other
  IN <<firstId, secondId>>

\* lines 1061-1077: the scan over the pairs of rooms in the order of roomIds
\* (rooms in the order they were placed) keeps the first pair at the largest
\* distance.  Every room has its centre in rooms, so bestDistance ends >= 0
\* and the random pair of lines 1078-1086 is not drawn.
selectedRoomIds(roomIds, rooms) ==
  LET pairs == {pair \in roomIds \X roomIds : pair[1] < pair[2]}
      distSq(pair) == centerDistanceSq(rooms, pair[1], pair[2])
      earlier(p, q) == p[1] < q[1] \/ (p[1] = q[1] /\ p[2] < q[2])
  IN CHOOSE pair \in pairs :
       \A other \in pairs \ {pair} :
         \/ distSq(other) < distSq(pair)
         \/ distSq(other) = distSq(pair) /\ earlier(pair, other)

\* lines 1028-1107: the lists chooseExteriorExitOpenings can return for the
\* rooms of the variant
chooseExteriorExitOpeningsOfRooms(rWalls, rooms, opts) ==
  LET candidates == {wall \in rWalls :
                       edgeLength(wall.edge) >= opts.doorWidth + 50 /\ wall.roomId # 0}
      roomIds == {wall.roomId : wall \in candidates}
      ofRoom(roomId) == {wall \in candidates : wall.roomId = roomId}
      exitOn(wall, earlier) ==
        {OpeningOn(wall, "door", opts.doorWidth, offset, wall.roomId)
           : offset \in OffsetsOn(wall, opts.doorWidth, 10, earlier)}
  IN IF Cardinality(roomIds) < 2 THEN {<<>>}
     ELSE LET selected == selectedRoomIds(roomIds, rooms)
          IN UNION { UNION { {<<firstExit, secondExit>>
                               : secondExit \in exitOn(secondWall, <<firstExit>>)}
                             : firstExit \in exitOn(firstWall, <<>>) }
                     : firstWall \in ofRoom(selected[1]), secondWall \in ofRoom(selected[2]) }

\* line 945
ChooseExteriorExits ==
  /\ roomPc = "done"
  /\ exteriorRoomExits' \in chooseExteriorExitOpeningsOfRooms(roomWalls, roomsData, options)
  /\ roomPc' = "exits"
  /\ UNCHANGED <<hallwayCells, occupiedCells, roomRecords, roomIdByCell, roomSizeScale,
                 doorIndex, growth>>
  /\ UNCHANGED <<rawWalls, hallwayWalls, roomWalls, doorOpenings, connectedDoors,
                 windowOpenings, walls, wallPc>>
  /\ UNCHANGED <<callVars, loopVars>>

ExitsNext ==
  \/ FinishRooms
  \/ ChooseExteriorExits

\* two short bars on a grid of 21 x 12, five cells from either side of the
\* grid and five cells apart: there is room for a room left of them, right of
\* them and between them
TwoBarDraws ==
  << [shape |-> "L", xA |-> 6, xB |-> 6, xC |-> 3, yA |-> 3, yB |-> 5, yC |-> 3, branchY |-> 3],
     [shape |-> "L", xA |-> 14, xB |-> 14, xC |-> 3, yA |-> 3, yB |-> 5, yC |-> 3, branchY |-> 3] >>

\* the wall each of the three rooms hangs on: the west wall of the first bar,
\* its east wall, and the east wall of the second bar
TwoBarDoorWalls ==
  <<5, 8, 16>>

\* the compact rectangles of depth 5 on those walls (frontage 4 or 5 around a
\* door at the start of the wall), each as it is or with one cell claimed
\* below its first column
TwoBarRooms(slot) ==
  LET x0 == <<0, 8, 16>>[slot]
      rectangle(frontage) == (x0..(x0 + 4)) \X (2..(1 + frontage))
  IN UNION { {rectangle(frontage), rectangle(frontage) \cup {<<x0, 2 + frontage>>}}
             : frontage \in {4, 5} }

\* The state in which growRoomCells returns in the variant of a call for four
\* doors with the two bars (doors of 1.2): the rooms are those of any of the
\* three places, in the order of their doors.
ExitsInit ==
  /\ AttemptStart(4, TwoBarDraws, Fin(120), Fin(2100))
  /\ \E slots \in SUBSET (1..3) :
       LET placed == SelectSeq(<<1, 2, 3>>, LAMBDA slot : slot \in slots)
       IN /\ \E cells \in [1..Len(placed) -> UNION {TwoBarRooms(slot) : slot \in 1..3}] :
               /\ \A i \in 1..Len(placed) : cells[i] \in TwoBarRooms(placed[i])
               /\ roomRecords = [i \in 1..Len(placed) |-> RoomRecord(i, cells[i])]
          /\ connectedDoors =
               SelectSeq(doorOpenings,
                         LAMBDA opening :
                           /\ opening.wallKey.x1 = opening.wallKey.x2
                           /\ \E slot \in slots : opening.wallKey.x1 = TwoBarDoorWalls[slot])
  /\ roomIdByCell = [cell \in UNION {roomRecords[i].cells : i \in 1..Len(roomRecords)} |->
                       CHOOSE i \in 1..Len(roomRecords) : cell \in roomRecords[i].cells]
  /\ occupiedCells = hallwayCells \cup DOMAIN roomIdByCell
  /\ doorIndex = Len(hallOrder(doorOpenings, {})) + 1
  /\ growth = NoGrowth
  /\ roomPc = "finish"

SpecExits ==
  ExitsInit /\ [][ExitsNext]_vars

\* lines 1193-1206: the glyph of an opening on an edge, end points in hundredths
createOpeningGlyph(edge, opening) ==
  [ x1 |-> PointAlong(edge, opening.start).x,
    y1 |-> PointAlong(edge, opening.start).y,
    x2 |-> PointAlong(edge, opening.end).x,
    y2 |-> PointAlong(edge, opening.end).y,
    type |-> opening.type ]

\* lines 1277-1287: a glyph for every opening that carries the key of the
\* wall, wall after wall (no wall has length 0, so no glyph is null)
RECURSIVE compileGlyphs(_, _)
compileGlyphs(allWalls, allOpenings) ==
  IF allWalls = <<>> THEN <<>>
  ELSE LET wall == Head(allWalls)
           openings == SelectSeq(allOpenings, LAMBDA opening : opening.wallKey = wall.edge)
       IN [i \in 1..Len(openings) |-> createOpeningGlyph(wall.edge, openings[i])] \o
          compileGlyphs(Tail(allWalls), allOpenings)

\* line 1276: openingGlyphs of the attempt, once its walls are compiled
openingGlyphs ==
  IF wallPc = "done"
    THEN compileGlyphs(WallList(hallwayWalls) \o WallList(roomWalls),
                       connectedDoors \o exteriorRoomExits \o windowOpenings)
    ELSE <<>>

(***************************************************************************)
(* The merging of raw boundary edges on its own: any owners along a line.  *)
(***************************************************************************)
\* who can own the unit edge at one position of a line: nobody, the hallway,
\* one room, or two rooms that touch across it (lines 309-318 and 523-538)
EdgeOwnerSets ==
  {{}, {0}, {1}, {2}, {1, 2}}

\* raw edges off the line: none, one on a parallel line next to it, or one on
\* the perpendicular line through its first corner
EdgesOffLine(axis) ==
  { {} } \cup
  { {[edge |-> UnitEdge(axis, 1, 0), roomId |-> roomId]} : roomId \in {0, 1} } \cup
  { {[edge |-> UnitEdge(IF axis = "h" THEN "v" ELSE "h", 0, 0), roomId |-> 1]} }

\* the number of positions of the line whose owners are drawn
MergeLineLength ==
  MaxWallLength - 1

MergeInit ==
  /\ \E axis \in {"h", "v"}, owners \in [0..(MergeLineLength - 1) -> EdgeOwnerSets] :
     \E others \in EdgesOffLine(axis) :
       rawWalls = UNION { { [edge |-> UnitEdge(axis, 0, position), roomId |-> roomId]
                            : roomId \in owners[position] }
                          : position \in 0..(MergeLineLength - 1) } \cup others
  /\ userOptions = CallerOptions(2, 1, "false", "false")
  /\ options = NormalizeOptions(userOptions)
  /\ pc = "attempt"
  /\ attemptIndex = 0
  /\ bestAttempt = NoAttempt
  /\ attempt = NoAttempt
  /\ doorOpeningCount = 0
  /\ variantIndex = 0
  /\ best = NoVariant
  /\ variantCandidate = NoVariant
  /\ outcome = NoOutcome
  /\ hallwayWalls = {}
  /\ roomWalls = {}
  /\ doorOpenings = <<>>
  /\ connectedDoors = <<>>
  /\ exteriorRoomExits = <<>>
  /\ windowOpenings = <<>>
  /\ walls = <<>>
  /\ wallPc = "raw"
  /\ RoomsIdle
  /\ LoopsIdle

MergeNext ==
  MergeWalls

SpecMerge ==
  MergeInit /\ [][MergeNext]_vars

(***************************************************************************)
(* The carving of one hallway with every placement of its waypoints.       *)
(***************************************************************************)
\* lines 117-127 and 147: every draw of the random integers a shape reads;
\* the integers the shape does not read are left at the margin
CenterlineDraws(bounds) ==
  LET xs == 3..Max(4, bounds.cols - 4)
      ys == 3..Max(4, bounds.rows - 4)
  IN [shape : {"L"}, xA : xs, xB : xs, xC : {3}, yA : ys, yB : ys, yC : {3}, branchY : {3}]
     \cup
     [shape : {"U"}, xA : xs, xB : xs, xC : {3}, yA : ys, yB : ys, yC : ys, branchY : {3}]
     \cup
     [shape : {"S"}, xA : xs, xB : xs, xC : xs, yA : ys, yB : ys, yC : ys, branchY : {3}]
     \cup
     { draw \in [shape : {"T"}, xA : xs, xB : xs, xC : xs, yA : ys, yB : ys, yC : {3},
                 branchY : ys] : draw.branchY \in Between(draw.yA, draw.yB) }

\* lines 189-208: one round of the retry loop, the footprint carved from any
\* draw of the waypoints
CarveFootprint ==
  /\ hallwayPc = "carve"
  /\ hallwayIndex < options.hallwayCount
  /\ hallwayAttempt < maxAttemptsPerHallway
  /\ \E draw \in CenterlineDraws(Bounds) :
       LET candidate == generateHallwayCells(Bounds, draw.shape, 3, draw)
       IN IF Cardinality(candidate) < minUniqueCellsPerHallway
            THEN /\ hallwayAttempt' = hallwayAttempt + 1
                 /\ UNCHANGED <<hallwayCells, hallwayGroups, hallwayIndex, hallwayPc>>
            ELSE /\ hallwayCells' = hallwayCells \cup candidate
                 /\ hallwayGroups' = Append(hallwayGroups, HallwayGroup(draw.shape, candidate))
                 /\ hallwayIndex' = hallwayIndex + 1
                 /\ hallwayAttempt' = 0
                 /\ hallwayPc' = IF hallwayIndex + 1 < options.hallwayCount
                                   THEN "carve" ELSE "done"
  /\ UNCHANGED <<occupiedCells, roomRecords, roomIdByCell, roomSizeScale, doorIndex, growth,
                 roomPc, pickedWalls, sampledIndices, sizeModesTried>>
  /\ UNCHANGED <<callVars, wallVars>>

FootprintNext ==
  \/ CarveFootprint
  \/ HallwayFallback

\* a call for one hallway on the smallest grid, in the last round of the retry
\* loop of buildHallwayGroups: every candidate so far had fewer than ten cells
FootprintInit ==
  /\ \E hallwayCount \in {1} :
       userOptions = [CallerOptions(2, hallwayCount, "false", "false")
                        EXCEPT !.width = Fin(1200), !.height = Fin(1200)]
  /\ options = NormalizeOptions(userOptions)
  /\ pc = "attempt"
  /\ attemptIndex = 0
  /\ bestAttempt = NoAttempt
  /\ attempt = NoAttempt
  /\ doorOpeningCount = 0
  /\ variantIndex = 0
  /\ best = NoVariant
  /\ variantCandidate = NoVariant
  /\ outcome = NoOutcome
  /\ WallsIdle
  /\ hallwayCells = {}
  /\ occupiedCells = {}
  /\ roomRecords = <<>>
  /\ roomIdByCell = <<>>
  /\ roomSizeScale = 0
  /\ doorIndex = 0
  /\ growth = NoGrowth
  /\ roomPc = "idle"
  /\ hallwayGroups = <<>>
  /\ hallwayIndex = 0
  /\ hallwayAttempt = maxAttemptsPerHallway - 1
  /\ hallwayPc = "carve"
  /\ pickedWalls = <<>>
  /\ sampledIndices = {}
  /\ sizeModesTried = NoModesTried

SpecFootprint ==
  FootprintInit /\ [][FootprintNext]_vars

(***************************************************************************)
(* The scale loop of generateRoomsWithAdaptiveScale over whole room runs.  *)
(***************************************************************************)
\* lines 947-952: the candidate of the variant just run
RunCandidate ==
  [ isNull            |-> FALSE,
    connectedDoors    |-> Len(connectedDoors),
    exteriorRoomExits |-> Len(exteriorRoomExits) ]

\* the room records of the variant before, had the list outlived its run
roomRecordsOfEarlierRun ==
  roomRecords

\* line 812: const roomRecords = [], at the entry of generateRoomsFromDoors
roomRecordsAtEntry ==
  <<>>

\* lines 953-964, 928-930 and 810-815: the variant just run is kept if it is
\* better, it misses the target, and the next variant enters
\* generateRoomsFromDoors with its own scale
NextScaleVariant ==
  /\ pc = "scale"
  /\ roomPc = "exits"
  /\ variantIndex + 1 < ScaleCandidateCount
  /\ ~VariantHitsTarget(RunCandidate, options)
  /\ variantCandidate' = RunCandidate
  /\ best' = IF BetterVariant(RunCandidate, best) THEN RunCandidate ELSE best
  /\ variantIndex' = variantIndex + 1
  /\ roomSizeScale' = scaleCandidate(deriveLayoutScale(options), variantIndex + 1)
  /\ occupiedCells' = hallwayCells
  /\ roomRecords' = roomRecordsAtEntry
  /\ roomIdByCell' = <<>>
  /\ connectedDoors' = <<>>
  /\ doorIndex' = 1
  /\ growth' = NoGrowth
  /\ roomPc' = "place"
  /\ roomWalls' = {}
  /\ exteriorRoomExits' = <<>>
  /\ UNCHANGED <<userOptions, options, pc, attemptIndex, bestAttempt, attempt,
                 doorOpeningCount, outcome>>
  /\ UNCHANGED <<rawWalls, hallwayWalls, doorOpenings, windowOpenings, walls, wallPc>>
  /\ UNCHANGED <<hallwayCells, loopVars>>

VariantsNext ==
  \/ RoomsNext
  \/ ChooseExteriorExits
  \/ NextScaleVariant

\* the first scale variant of the calls on the smallest grid
VariantsInit ==
  \E draw \in RoomScenarios :
    RoomsStart(draw, DEFAULT_OPTIONS.roomShapeStyle, {0})

SpecVariants ==
  VariantsInit /\ [][VariantsNext]_vars

(***************************************************************************)
(* The seeds of the random streams.  A seed is an integer-valued double:   *)
(* [ulp, hi, lo] is a number whose low 32 bits are 65536 * hi + lo and     *)
(* whose neighbours among the doubles are 2^ulp apart.  With ulp = 0 the   *)
(* seed and all sums below are under 2^53 in magnitude and exact; with     *)
(* ulp > 0 the seed is a multiple of 2^ulp in [2^(52+ulp), 2^(53+ulp)),    *)
(* far enough from the upper end that no sum below leaves the range.       *)
(***************************************************************************)
\* line 1327: attemptIndex * 7919
AttemptSeedStride ==
  7919

\* line 929: (index + 1) * 3571
VariantSeedStride ==
  3571

\* the size of a 16-bit half of the low 32 bits
HalfWord ==
  256 * 256

RECURSIVE TwoToThe(_)
TwoToThe(n) ==
  IF n = 0 THEN 1 ELSE 2 * TwoToThe(n - 1)

\* the low 32 bits after adding a non-negative integer below 2^31
AddLow(x, d) ==
  LET lo == x.lo + (d % HalfWord)
      hi == x.hi + (d \div HalfWord) + (lo \div HalfWord)
  IN [x EXCEPT !.lo = lo % HalfWord, !.hi = hi % HalfWord]

\* bit n of the low 32 bits
LowBit(x, n) ==
  IF n < 16 THEN (x.lo \div TwoToThe(n)) % 2
  ELSE IF n < 32 THEN (x.hi \div TwoToThe(n - 16)) % 2
  ELSE 0

\* lines 1327 and 929: the double x + d for an integer 0 <= d < 2^29, rounded
\* to the nearest multiple of 2^ulp, to the even one on a tie
NumberPlus(x, d) ==
  IF x.ulp = 0 THEN AddLow(x, d)
  ELSE IF x.ulp > 30 THEN x
  ELSE LET u == TwoToThe(x.ulp)
           r == d % u
           down == AddLow(x, d - r)
           up == AddLow(down, u)
       IN IF 2 * r < u THEN down
          ELSE IF 2 * r > u THEN up
          ELSE IF LowBit(down, x.ulp) = 0 THEN down ELSE up

\* line 24: state = (Number(seed) >>> 0) || 1, the low 32 bits, 1 for 0
createRng(seed) ==
  IF seed.hi = 0 /\ seed.lo = 0 THEN [hi |-> 0, lo |-> 1]
                                ELSE [hi |-> seed.hi, lo |-> seed.lo]

\* line 1327: attemptSeed = Number(options.seed) + attemptIndex * 7919
attemptSeed(seed, index) ==
  NumberPlus(seed, index * AttemptSeedStride)

\* line 929: attemptSeed + (index + 1) * 3571
variantSeed(seed, index) ==
  NumberPlus(seed, (index + 1) * VariantSeedStride)

\* lines 1227 and 929: the initial state of the stream of an attempt (variant
\* 0) or of its scale variant with the given number (1..4)
streamState(seed, attempt_, variant) ==
  createRng(IF variant = 0 THEN attemptSeed(seed, attempt_)
            ELSE variantSeed(attemptSeed(seed, attempt_), variant - 1))

\* the seeds of the calls: 1; 12345; 2^32 - 1, the largest seed the page
\* sends; 2^32 - 7919 and 2^32 - 3571, for which a stream starts from 0; and
\* the powers of two 2^53, 2^60, 2^70 and 2^90
SeedDraws ==
  { [ulp |-> 0, hi |-> 0, lo |-> 1],
    [ulp |-> 0, hi |-> 0, lo |-> 12345],
    [ulp |-> 0, hi |-> 65535, lo |-> 65535],
    [ulp |-> 0, hi |-> 65535, lo |-> 57617],
    [ulp |-> 0, hi |-> 65535, lo |-> 61965],
    [ulp |-> 1, hi |-> 0, lo |-> 0],
    [ulp |-> 8, hi |-> 0, lo |-> 0],
    [ulp |-> 18, hi |-> 0, lo |-> 0],
    [ulp |-> 38, hi |-> 0, lo |-> 0] }

\* line 1302: the caller's options with a seed
WithSeed(opts, seed) ==
  [name \in DOMAIN opts \cup {"seed"} |-> IF name = "seed" THEN seed ELSE opts[name]]

\* strict calls for two doors that differ in the seed
SeedsInit ==
  /\ \E seed \in SeedDraws :
       userOptions = WithSeed(CallerOptions(2, 1, "true", "true"), seed)
  /\ CallInit

SpecSeeds ==
  SeedsInit /\ [][CallNext]_vars

(***************************************************************************)
(* The placement loop and the backfill of generateRoomsFromDoors together, *)
(* for calls with one hallway and with three.                              *)
(***************************************************************************)
BackfillNext ==
  \/ PlaceNext
  \/ BackfillHallway
  \/ StartGrowth
  \/ StartPass
  \/ StartTurn
  \/ GrowthClaim
  \/ FinishRooms

\* the calls for two doors with one hallway on the smallest grid, and the
\* call for four doors with the two bars on a grid of 21 x 12 (doors of 1.2)
BackfillInit ==
  \/ SmallGridRoomsInit
  \/ PlaceStart(4, TwoBarDraws, Fin(120), Fin(2100))

SpecBackfill ==
  BackfillInit /\ [][BackfillNext]_vars

(***************************************************************************)
(* Claims about generateFloorPlan's result and its option handling.        *)
(***************************************************************************)
Done ==
  pc = "done"

Threw(which) ==
  outcome.kind = "error" /\ outcome.error = which

\* C3: with strictDoorCount = true and requireExteriorExits = true a finished call
\* either returned a plan with placedDoorCount = requestedDoorCount and
\* hasExteriorExit = true, or threw the door-count or the exterior-exit error.
C3_StrictNeverSilent ==
  (Done /\ userOptions.strictDoorCount = "true" /\ userOptions.requireExteriorExits = "true")
    => \/ /\ outcome.kind = "plan"
          /\ outcome.meta.placedDoorCount = outcome.meta.requestedDoorCount
          /\ outcome.meta.hasExteriorExit
       \/ Threw("doorCount")
       \/ Threw("exteriorExit")

\* a strict call whose best attempt had more rooms than doors requested, thrown as an error
C3_Witness ==
  /\ Done
  /\ userOptions.strictDoorCount = "true" /\ userOptions.requireExteriorExits = "true"
  /\ bestAttempt.connectedDoors > options.doorCount
  /\ bestAttempt.hasExteriorExit
  /\ Threw("doorCount")

\* C4: in every returned plan meta.placedDoorCount <= meta.requestedDoorCount.
C4_PlacedAtMostRequested ==
  outcome.kind = "plan" => outcome.meta.placedDoorCount <= outcome.meta.requestedDoorCount

C6_FalseFlagNoError ==
  Done =>
    /\ userOptions.strictDoorCount = "false" => ~Threw("doorCount")
    /\ userOptions.requireExteriorExits = "false" => ~Threw("exteriorExit")
    /\ (userOptions.strictDoorCount = "false" /\ userOptions.requireExteriorExits = "false")
         => /\ outcome.kind = "plan"
            /\ outcome.meta.placedDoorCount = bestAttempt.connectedDoors
            /\ outcome.meta.hasExteriorExit = bestAttempt.hasExteriorExit

\* both flags false, and a plan comes back that meets neither target
C6_Witness ==
  /\ Done
  /\ userOptions.strictDoorCount = "false" /\ userOptions.requireExteriorExits = "false"
  /\ outcome.kind = "plan"
  /\ outcome.meta.placedDoorCount # outcome.meta.requestedDoorCount
  /\ ~outcome.meta.hasExteriorExit

\* C7 as claimed: either error is raised only when the caller set its flag to true,
\* so a call that leaves both flags unset throws neither.
C7_ErrorOnlyWhenFlagTrue ==
  /\ Threw("doorCount") => userOptions.strictDoorCount = "true"
  /\ Threw("exteriorExit") => userOptions.requireExteriorExits = "true"

\* C7 amended: either error is raised only when its flag is not false (true or left
\* unset) and the best attempt misses that target.
C7_ErrorOnlyWhenFlagNotFalse ==
  /\ Threw("doorCount")
       => /\ userOptions.strictDoorCount \in {"true", "unset"}
          /\ bestAttempt.connectedDoors # options.doorCount
  /\ Threw("exteriorExit")
       => /\ userOptions.requireExteriorExits \in {"true", "unset"}
          /\ ~bestAttempt.hasExteriorExit

\* the exterior-exit error of a call that left requireExteriorExits unset and
\* passed strictDoorCount = false
C7_Witness ==
  /\ Threw("exteriorExit")
  /\ userOptions.requireExteriorExits = "unset"
  /\ userOptions.strictDoorCount = "false"

InRange(x, low, high) ==
  low <= x /\ x <= high

\* C8: once normalised, width and height lie in [12,100], hallwayCount in [1,12],
\* doorCount in [0,40], roomShapeStyle in [0,100], doorWidth in [0.8,2.5],
\* maxWindowCount in [0,40], windowWidth in [0.8,2.8]; no numeric value makes the call
\* fail, and the plan's meta.width and meta.height lie in [12,100].
C8_Clamped ==
  /\ pc # "start" =>
       /\ InRange(options.width, 1200, 10000)
       /\ InRange(options.height, 1200, 10000)
       /\ InRange(options.hallwayCount, 1, 12)
       /\ InRange(options.doorCount, 0, 40)
       /\ InRange(options.roomShapeStyle, 0, 100)
       /\ InRange(options.doorWidth, 80, 250)
       /\ InRange(options.maxWindowCount, 0, 40)
       /\ InRange(options.windowWidth, 80, 280)
  /\ Done =>
       /\ outcome.kind = "plan"
       /\ InRange(outcome.meta.width, 1200, 10000)
       /\ InRange(outcome.meta.height, 1200, 10000)

\* width = 5 and height = 1000 requested, a plan of 12 by 100 returned
C8_Witness ==
  /\ Done
  /\ userOptions.width = Fin(500)
  /\ userOptions.height = Fin(100000)
  /\ outcome.kind = "plan"
  /\ outcome.meta.width = 1200
  /\ outcome.meta.height = 10000

\* C9: for every whole roomShapeStyle v in [0,100] the style the growth engine uses
\* (normalizeShapeStyle of the normalised option) equals v / 100.
C9_StyleIsRequestedOverHundred ==
  ( /\ pc # "start"
    /\ userOptions.roomShapeStyle.k = "fin"
    /\ InRange(userOptions.roomShapeStyle.v, 0, 10000)
    /\ userOptions.roomShapeStyle.v % 100 = 0 )
    => normalizeShapeStyle(options.roomShapeStyle) * 100 = userOptions.roomShapeStyle.v

(***************************************************************************)
(* Claims about the compiled walls.                                        *)
(***************************************************************************)
\* a cut segment lies along a grid line: it is horizontal at a whole y or
\* vertical at a whole x
OnGridLine(segment) ==
  \/ segment.y1 = segment.y2 /\ segment.y1 % 100 = 0
  \/ segment.x1 = segment.x2 /\ segment.x1 % 100 = 0

\* the length of an axis-aligned segment, in hundredths
SegmentLength(segment) ==
  Abs(segment.x2 - segment.x1) + Abs(segment.y2 - segment.y1)

\* C10: every wall segment of an attempt is axis-aligned, lies on an integer
\* grid line and is longer than 0.08.
C10_SegmentsValid ==
  \A i \in 1..Len(walls) :
    /\ walls[i].x1 = walls[i].x2 \/ walls[i].y1 = walls[i].y2
    /\ OnGridLine(walls[i])
    /\ SegmentLength(walls[i]) > 8

\* a wall shared by two rooms carries both exits 0.05 apart; the stretch
\* between them is dropped and the rest of the wall is compiled
C10_Witness ==
  /\ wallPc = "done"
  /\ Len(exteriorRoomExits) = 2
  /\ exteriorRoomExits[1].wallKey = exteriorRoomExits[2].wallKey
  /\ exteriorRoomExits[2].start - exteriorRoomExits[1].end = 5
  /\ Len(walls) >= 2


(***************************************************************************)
(* Claims about the rooms of an attempt.                                   *)
(***************************************************************************)
\* C2: at every point of the placement loop, the backfill loop and the growth
\* loop the cell sets of two different rooms are disjoint and no room cell is
\* a hallway cell.
C2_Partition ==
  /\ \A i, j \in 1..Len(roomRecords) :
       i # j => roomRecords[i].cells \cap roomRecords[j].cells = {}
  /\ \A i \in 1..Len(roomRecords) : roomRecords[i].cells \cap hallwayCells = {}

\* two rooms stand next to the hallway and growth has added a cell to one
C2_Witness ==
  /\ roomPc = "done"
  /\ Len(roomRecords) = 2
  /\ growth.grown >= 1

(***************************************************************************)
(* Openings of an attempt.                                                 *)
(***************************************************************************)
AttemptOpenings ==
  connectedDoors \o exteriorRoomExits \o windowOpenings

OpeningWithinWall(opening) ==
  /\ 0 <= opening.start
  /\ opening.start < opening.end
  /\ opening.end <= edgeLength(opening.wallKey)

OpeningsIntersect(a, b) ==
  a.start <= b.end /\ b.start <= a.end

\* C11: every connected door, exterior exit and window of an attempt lies
\* within its wall (0 <= start < end <= wall length), and no two openings
\* with the same wall key have intersecting [start, end] intervals.
C11_OpeningsContainedAndApart ==
  \A i, j \in 1..Len(AttemptOpenings) :
    /\ OpeningWithinWall(AttemptOpenings[i])
    /\ (i # j /\ AttemptOpenings[i].wallKey = AttemptOpenings[j].wallKey)
         => ~OpeningsIntersect(AttemptOpenings[i], AttemptOpenings[j])

(***************************************************************************)
(* Claims about the rooms of an attempt.                                   *)
(***************************************************************************)
\* perimeter / area <= maxPerimeterAreaRatioForRoom(area) + 0.3 * style for a
\* cell set, with the perimeter counted from the cells; in thousandths
RatioWithinCeiling(roomCells) ==
  LET area == Cardinality(roomCells)
      perimeter == computeRoomPerimeterFromCells(roomCells)
  IN 1000 * perimeter <= area * (maxPerimeterAreaRatioForRoom(area) + 3 * ShapeStyle)

BothFlagsFalse ==
  userOptions.strictDoorCount = "false" /\ userOptions.requireExteriorExits = "false"

\* plan attempts started so far in the call: attemptIndex counts the finished
\* ones, except the one that ended the loop by the break of line 1338
AttemptsStarted ==
  IF pc \in {"scale", "variantDone", "attemptDone"} THEN attemptIndex + 1
  ELSE IF pc \in {"finish", "done"} /\ AttemptHitsTarget(bestAttempt, options)
    THEN attemptIndex + 1
  ELSE attemptIndex

\* scale variants started so far in the running plan attempt
VariantsStarted ==
  IF pc = "variantDone" THEN variantIndex + 1
  ELSE IF pc = "scale" THEN variantIndex
  ELSE 0

\* C13: a call runs at most 48 plan attempts when strictDoorCount or
\* requireExteriorExits is in force and at most 12 when both are false, and
\* a plan attempt runs at most 4 scale variants.
C13_AttemptBudget ==
  /\ AttemptsStarted <= (IF BothFlagsFalse THEN 12 ELSE 48)
  /\ VariantsStarted <= 4

\* a call with both flags off has used up its 12 attempts
C13_Witness ==
  /\ pc = "done"
  /\ BothFlagsFalse
  /\ AttemptsStarted = 12
  /\ outcome.kind = "plan"

ScaleLoopKeepsBest ==
  (pc = "variantDone" /\ pc' = "attemptDone" /\ ~VariantHitsTarget(variantCandidate, options))
    => \A ran \in {variantCandidate, best} :
         ~ran.isNull =>
           /\ attempt'.connectedDoors >= ran.connectedDoors
           /\ (attempt'.connectedDoors = ran.connectedDoors /\ ran.exteriorRoomExits >= 2)
                => attempt'.hasExteriorExit

\* the plan-attempt loop ends without a full hit: its result against the last attempt
\* and the attempt kept before
AttemptLoopKeepsBest ==
  (pc = "attemptDone" /\ pc' = "finish" /\ ~AttemptHitsTarget(attempt, options))
    => \A ran \in {attempt, bestAttempt} :
         ~ran.isNull =>
           /\ bestAttempt'.connectedDoors >= ran.connectedDoors
           /\ (bestAttempt'.connectedDoors = ran.connectedDoors /\ ran.hasExteriorExit)
                => bestAttempt'.hasExteriorExit

\* C15: when the scale loop or the plan-attempt loop ends without an attempt that has
\* the target door count and two exterior exits, its result has at least as many
\* connected doors as every attempt it ran, and has two exterior exits when an attempt
\* with as many doors has them.
C15_BestOfKeepsMaximum ==
  [][ScaleLoopKeepsBest /\ AttemptLoopKeepsBest]_vars

\* a scale variant with the target door count and two exterior exits ends the scale
\* loop and is what the loop returns
EarlyStopOfScaleLoop ==
  ( /\ pc = "variantDone"
    /\ variantCandidate.connectedDoors = options.doorCount
    /\ variantCandidate.exteriorRoomExits >= 2 )
    => /\ pc' = "attemptDone"
       /\ attempt'.connectedDoors = variantCandidate.connectedDoors
       /\ attempt'.hasExteriorExit

\* a plan attempt with the target door count and two exterior exits ends the
\* plan-attempt loop and is the attempt the call goes on with
EarlyStopOfAttemptLoop ==
  ( /\ pc = "attemptDone"
    /\ attempt.connectedDoors = options.doorCount
    /\ attempt.hasExteriorExit )
    => /\ pc' = "finish"
       /\ bestAttempt' = attempt

\* C16: in the scale loop and in the plan-attempt loop, as soon as an attempt has the
\* target door count and two exterior exits, no further attempt of that loop is run and
\* that attempt is the loop's result.
C16_EarlyStop ==
  [][EarlyStopOfScaleLoop /\ EarlyStopOfAttemptLoop]_vars

\* the plan-attempt loop was left on a full hit after at least one attempt that
\* missed, with attempts to spare
C16_Witness ==
  /\ pc = "finish"
  /\ bestAttempt.connectedDoors = options.doorCount
  /\ bestAttempt.hasExteriorExit
  /\ attemptIndex >= 1
  /\ attemptIndex + 1 < maxAttempts(options)

\* the four cells that share a side with a cell
OrthogonalNeighbors(cell) ==
  { <<cell[1], cell[2] - 1>>, <<cell[1] + 1, cell[2]>>,
    <<cell[1], cell[2] + 1>>, <<cell[1] - 1, cell[2]>> }

\* C17: at every point of an attempt after placement, backfill and growth, no cell of
\* one room shares a side with a cell of a different room.
C17_RoomsNeverTouch ==
  \A i, j \in 1..Len(roomRecords) :
    i # j => \A cell \in roomRecords[i].cells :
               OrthogonalNeighbors(cell) \cap roomRecords[j].cells = {}

\* the cell lists of the regions of the plan: its hallways, then its rooms
RegionCells ==
  [i \in 1..Len(buildHallwayMetadata(hallwayGroups)) |->
     buildHallwayMetadata(hallwayGroups)[i].cells]
    \o [i \in 1..Len(roomRecords) |-> roomRecords[i].cells]

\* C18: in a plan every grid cell is in the cell list of at most one region, a region
\* being a hallway group or a room; no cell is listed by two hallway groups.
C18_ExclusiveOwnership ==
  hallwayPc = "done" =>
    \A i, j \in 1..Len(RegionCells) : i # j => RegionCells[i] \cap RegionCells[j] = {}

\* C19: a plan has at least one hallway and at most as many as requested, every
\* hallway has a cell, and no two hallways have the same id; also when all 12 carves
\* of the first hallway gave fewer than 10 cells.
C19_AtLeastOneHallway ==
  hallwayPc = "done" =>
    LET hallways == buildHallwayMetadata(hallwayGroups)
    IN /\ 1 <= Len(hallways)
       /\ Len(hallways) <= options.hallwayCount
       /\ \A i \in 1..Len(hallways) : hallways[i].cells # {}
       /\ \A i, j \in 1..Len(hallways) : i # j => hallways[i].id # hallways[j].id

\* all carves of the first hallway came out too small and the fallback's footprint,
\* too small as well, is the only hallway of a call that asked for more
C19_Witness ==
  /\ hallwayPc = "done"
  /\ options.hallwayCount >= 2
  /\ Len(hallwayGroups) = 1
  /\ Cardinality(hallwayGroups[1].cells) < minUniqueCellsPerHallway

\* C20: the door-count error names the requested door count and the door count the
\* best attempt placed.
C20_ErrorNamesBothCounts ==
  Threw("doorCount") =>
    {options.doorCount, bestAttempt.connectedDoors} \subseteq Range(outcome.numbers)

(***************************************************************************)
(* Claims about the growth of rooms.                                       *)
(***************************************************************************)
\* the cells growRoomCells adds to a room in a step
ClaimedCells ==
  IF roomPc = "claim" THEN (DOMAIN roomIdByCell') \ (DOMAIN roomIdByCell) ELSE {}

\* the cell is inside the grid, has no owner and is no hallway cell before the
\* step, and each of its side neighbours among the given cells belongs to the
\* room that claims it
ClaimedBesideOwnOnly(cell, occupied) ==
  /\ cell[1] >= 0 /\ cell[1] < Bounds.cols /\ cell[2] >= 0 /\ cell[2] < Bounds.rows
  /\ cell \notin DOMAIN roomIdByCell
  /\ cell \notin hallwayCells
  /\ \A neighbor \in OrthogonalNeighbors(cell) \cap occupied :
       /\ neighbor \in DOMAIN roomIdByCell
       /\ roomIdByCell[neighbor] = roomIdByCell'[cell]

GrowthClaimRule ==
  \A cell \in ClaimedCells :
    ClaimedBesideOwnOnly(cell, hallwayCells \cup DOMAIN roomIdByCell)

\* C21: every cell growRoomCells adds to a room is, when it is claimed, inside
\* the grid, owned by no room, not a hallway cell, and each of its four side
\* neighbours that is occupied, by a hallway or by any room, belongs to the
\* claiming room.
C21_GrowthClaimRule ==
  [][GrowthClaimRule]_vars

GrowthClaimRuleAmongRooms ==
  \A cell \in ClaimedCells :
    ClaimedBesideOwnOnly(cell, DOMAIN roomIdByCell)

\* C21 as amended: every cell growRoomCells adds to a room is, when it is
\* claimed, inside the grid, owned by no room, not a hallway cell, and each of
\* its four side neighbours that a room owns belongs to the claiming room; a
\* hallway cell beside it does not keep it from being claimed.
C21_GrowthClaimRuleAmongRooms ==
  [][GrowthClaimRuleAmongRooms]_vars

\* a cell a room has just claimed lies beside a hallway cell
C21_Witness ==
  /\ roomPc = "claim"
  /\ growth.grown >= 1
  /\ \E cell \in (DOMAIN roomIdByCell) \ occupiedCells :
       OrthogonalNeighbors(cell) \cap hallwayCells # {}

\* growRoomCells has returned (line 693, 709 or the end of the pass loop)
GrowthReturned ==
  roomPc = "finish"

\* C22: whenever growRoomCells returns, the number of room-owned cells has
\* reached the target count, or the last full pass over the rooms made no claim.
C22_StopsAtTargetOrIdlePass ==
  GrowthReturned =>
    \/ growth.claimed >= growth.target
    \/ growth.pass > 0 /\ ~growth.passProgress

\* C22 as amended: whenever growRoomCells returns, the number of room-owned
\* cells has reached the target count, or the last full pass made no claim, or
\* maxPasses passes have run.
C22_StopsAtTargetIdlePassOrBudget ==
  GrowthReturned =>
    \/ growth.claimed >= growth.target
    \/ growth.pass > 0 /\ ~growth.passProgress
    \/ growth.pass = growth.maxPasses

\* growth has used all its passes, the last one claimed a cell, and the target
\* is not reached
C22_Witness ==
  /\ GrowthReturned
  /\ growth.pass = growth.maxPasses
  /\ growth.passProgress
  /\ growth.claimed < growth.target

\* the cells the rooms own when growRoomCells starts (line 691); the pass
\* level leaves roomIdByCell as placement left it
CellsAtGrowthStart ==
  Cardinality(DOMAIN roomIdByCell)

AnchorBeside(roomCells, cell) ==
  \E anchor \in OrthogonalNeighbors(cell) \cap roomCells :
    countOrthogonalRoomNeighbors(roomCells, anchor[1], anchor[2]) >= 2

\* growRoomCells is running or has returned
GrowthEntered ==
  roomPc \in {"pass", "turn", "claim", "finish"}

\* no same-room cell diagonal to the cell and no anchor beside it
NoDiagonalAndNoAnchor(roomCells, cell) ==
  /\ countDiagonalRoomNeighbors(roomCells, cell[1], cell[2]) = 0
  /\ ~AnchorBeside(roomCells, cell)

\* no same-room cell diagonal to the cell or no anchor beside it
NoDiagonalOrNoAnchor(roomCells, cell) ==
  \/ countDiagonalRoomNeighbors(roomCells, cell[1], cell[2]) = 0
  \/ ~AnchorBeside(roomCells, cell)

\* the support test of the cell agrees with the rule: the style minimum is
\* met, and a cell with exactly one same-room cell beside it is not one the
\* rule rejects
SupportTestAgrees(room, cell, singleEdgeRejected) ==
  LET orth == countOrthogonalRoomNeighbors(room.cells, cell[1], cell[2])
  IN growthSupportAccepted(room, cell, ShapeStyle) <=>
       /\ orth >= (IF ShapeStyle < 35 THEN 2 ELSE 1)
       /\ ~(orth = 1 /\ singleEdgeRejected)

\* C24: a claimable candidate passes the neighbour-support test exactly when
\* its orthogonal same-room neighbour count is at least the style minimum (2
\* when style < 0.35, else 1) and it does not have exactly one orthogonal
\* same-room neighbour together with no diagonal same-room neighbour and no
\* orthogonally adjacent same-room anchor cell with two or more orthogonal
\* same-room neighbours.
C24_SupportTest ==
  GrowthEntered =>
    \A i \in 1..Len(roomRecords) :
      \A cell \in growthCandidates(roomRecords[i]) :
        SupportTestAgrees(roomRecords[i], cell,
                          NoDiagonalAndNoAnchor(roomRecords[i].cells, cell))

\* C24 as amended: a claimable candidate passes the neighbour-support test
\* exactly when its orthogonal same-room neighbour count is at least the style
\* minimum and it does not have exactly one orthogonal same-room neighbour
\* together with no diagonal same-room neighbour or no such anchor cell.
C24_SupportTestNeedsBoth ==
  GrowthEntered =>
    \A i \in 1..Len(roomRecords) :
      \A cell \in growthCandidates(roomRecords[i]) :
        SupportTestAgrees(roomRecords[i], cell,
                          NoDiagonalOrNoAnchor(roomRecords[i].cells, cell))

\* a claimable candidate with one same-room cell beside it, a same-room cell
\* diagonal to it and no anchor
C24_Witness ==
  /\ GrowthEntered
  /\ \E i \in 1..Len(roomRecords) :
       \E cell \in growthCandidates(roomRecords[i]) :
         /\ countOrthogonalRoomNeighbors(roomRecords[i].cells, cell[1], cell[2]) = 1
         /\ countDiagonalRoomNeighbors(roomRecords[i].cells, cell[1], cell[2]) >= 1
         /\ ~AnchorBeside(roomRecords[i].cells, cell)

(***************************************************************************)
(* Claims about the openings of an attempt.                                *)
(***************************************************************************)
\* chooseDoorOpenings has returned for a call that asks for doors and has a
\* candidate wall
DoorsChosen ==
  wallPc = "picked" /\ options.doorCount > 0 /\ doorCandidates # {}

\* the openings lie on pairwise different candidate walls
OnDifferentCandidateWalls(openings) ==
  /\ \A i, j \in 1..Len(openings) : i # j => openings[i].wallKey # openings[j].wallKey
  /\ \A i \in 1..Len(openings) :
       openings[i].wallKey \in {wall.edge : wall \in doorCandidates}

RoomPlacedByStep ==
  roomRecords'[Len(roomRecords')].cells

\* the step tries the size modes in the given order, a room it records is a
\* rectangle of the mode it tried that overlaps no occupied cell, and it
\* leaves a door for which a room is attempted only after every mode of the
\* order was tried
SizeModeOrderRule(order) ==
  /\ sizeModesTried' # sizeModesTried =>
       /\ Len(sizeModesTried'.modes) <= Len(order)
       /\ sizeModesTried'.modes = SubSeq(order, 1, Len(sizeModesTried'.modes))
  /\ Len(roomRecords') > Len(roomRecords) =>
       LET opening == doorOpenings[doorIndex]
           hallwayWall == CHOOSE wall \in hallwayWalls : wall.edge = opening.wallKey
           hallwaySide == classifyHallwayWallSide(hallwayWall.edge, hallwayCells, Bounds)
           mode == sizeModesTried'.modes[Len(sizeModesTried'.modes)]
       IN /\ RoomPlacedByStep \cap occupiedCells = {}
          /\ \E candidate \in buildRoomFromDoor(opening, hallwayWall, hallwaySide, Bounds, mode,
                                                roomSizeScale) \ {NoRect} :
               RoomPlacedByStep = createRoomCellKeySet(candidate)
  /\ ( /\ roomPc = "place"
       /\ doorIndex <= Len(doorOpenings)
       /\ doorIndex' = doorIndex + 1
       /\ roomRecords' = roomRecords
       /\ RoomAttempted(doorOpenings[doorIndex]) ) =>
       modesTriedForDoor = order

\* C26: for every door for which a room is attempted the size modes are tried
\* in the order large, normal, compact; the room placed is the rectangle of the
\* first mode in that order that fits the grid and overlaps no occupied cell,
\* and the door is left without a room only if none of the three modes yields
\* such a rectangle.
C26_LargeNormalCompact ==
  [][SizeModeOrderRule(<<"large", "normal", "compact">>)]_vars

\* C26 as amended: the modes tried are large, normal, compact when the room
\* size scale is at least 1.2 or there are at most 10 door openings, and
\* normal, compact otherwise; the room placed is the rectangle drawn for the
\* first mode of that list that fits the grid and overlaps no occupied cell,
\* and the door is left without a room only if no mode of the list yields
\* such a rectangle.
C26_ModesOfTheListInOrder ==
  [][SizeModeOrderRule(IF roomSizeScale >= 12000 \/ Len(doorOpenings) <= 10
                         THEN <<"large", "normal", "compact">>
                         ELSE <<"normal", "compact">>)]_vars

\* a door of a call with more than 10 door openings and a scale below 1.2 got
\* its room in the compact mode after the normal mode
C26_Witness ==
  /\ Len(doorOpenings) > 10
  /\ roomSizeScale < 12000
  /\ sizeModesTried.modes = <<"normal", "compact">>
  /\ doorIndex = sizeModesTried.door + 1
  /\ Len(connectedDoors) >= 1
  /\ connectedDoors[Len(connectedDoors)] = doorOpenings[sizeModesTried.door]

\* the cells on the two sides of a wall along the interval of an opening on
\* it: <<side before the wall, side behind it>> for every cell the interval
\* touches
CellsAlongOpening(opening) ==
  LET edge == opening.wallKey
      first(wallStart) == (100 * wallStart + opening.start) \div 100
      last(wallStart) == (100 * wallStart + opening.end - 1) \div 100
  IN IF edge.y1 = edge.y2
       THEN {<< <<x, edge.y1 - 1>>, <<x, edge.y1>> >> : x \in first(edge.x1)..last(edge.x1)}
       ELSE {<< <<edge.x1 - 1, y>>, <<edge.x1, y>> >> : y \in first(edge.y1)..last(edge.y1)}

\* the door has the hallway on one side and the room on the other side, all
\* along its interval
DoorJoins(opening, roomCells) ==
  LET pairs == CellsAlongOpening(opening)
  IN \/ \A pair \in pairs : pair[1] \in hallwayCells /\ pair[2] \in roomCells
     \/ \A pair \in pairs : pair[2] \in hallwayCells /\ pair[1] \in roomCells

\* C27: for every connected door, along the whole door interval on its hallway
\* wall the cells on one side of the wall are hallway cells and the cells on
\* the other side belong to the room created for that door, the i-th room for
\* the i-th connected door.
C27_DoorAttachesRoomToHallway ==
  /\ Len(connectedDoors) = Len(roomRecords)
  /\ \A i \in 1..Len(connectedDoors) :
       /\ roomRecords[i].id = i
       /\ DoorJoins(connectedDoors[i], roomRecords[i].cells)

\* a door at the far end of its wall, whose interval touches three cells, got
\* its room, and a room has grown
C27_Witness ==
  /\ roomPc = "finish"
  /\ growth.grown >= 1
  /\ \E i \in 1..Len(connectedDoors) :
       /\ connectedDoors[i].start > 100
       /\ Cardinality(CellsAlongOpening(connectedDoors[i])) = 3

(***************************************************************************)
(* Claims about the exterior exits.                                        *)
(***************************************************************************)
\* the rooms that own a wall of length >= doorWidth + 0.5
RoomsWithExitWall ==
  {wall.roomId : wall \in {w \in roomWalls : edgeLength(w.edge) >= options.doorWidth + 50}}

\* the exit is on a wall of length >= doorWidth + 0.5 of its room
OnExitWallOfItsRoom(exit) ==
  \E wall \in roomWalls :
    /\ wall.edge = exit.wallKey
    /\ wall.roomId = exit.roomId
    /\ edgeLength(wall.edge) >= options.doorWidth + 50

\* C28: chooseExteriorExitOpenings returns no exit when fewer than two rooms
\* own a wall of length >= doorWidth + 0.5, and otherwise exactly two exits,
\* on walls of two distinct rooms that are a pair at the largest distance of
\* centres among all pairs of rooms owning such a wall.
C28_ExitsOnFarthestRooms ==
  roomPc = "exits" =>
    IF Cardinality(RoomsWithExitWall) < 2
      THEN exteriorRoomExits = <<>>
      ELSE /\ Len(exteriorRoomExits) = 2
           /\ exteriorRoomExits[1].roomId # exteriorRoomExits[2].roomId
           /\ \A i \in 1..2 : OnExitWallOfItsRoom(exteriorRoomExits[i])
           /\ \A first, second \in RoomsWithExitWall :
                first # second =>
                  centerDistanceSq(roomsData, first, second)
                    <= centerDistanceSq(roomsData, exteriorRoomExits[1].roomId,
                                        exteriorRoomExits[2].roomId)

\* three rooms own an exit wall and the exits are not on the first two of them
C28_Witness ==
  /\ roomPc = "exits"
  /\ Cardinality(RoomsWithExitWall) = 3
  /\ Len(exteriorRoomExits) = 2
  /\ {exteriorRoomExits[1].roomId, exteriorRoomExits[2].roomId} # {1, 2}

\* the exits were chosen with a single room in the plan
C28_WitnessOneRoom ==
  /\ roomPc = "exits"
  /\ Cardinality(RoomsWithExitWall) = 1

(***************************************************************************)
(* Claims about the windows and the opening glyphs of an attempt.          *)
(***************************************************************************)
\* the number of glyphs of a type
GlyphCount(type) ==
  Cardinality({i \in 1..Len(openingGlyphs) : openingGlyphs[i].type = type})

\* C29: the number of window glyphs (meta.windowCount) is at most the
\* requested maxWindowCount, and no window is on a wall that hosts a connected
\* door or an exterior exit.
C29_WindowsWithinCount ==
  wallPc = "done" =>
    /\ GlyphCount("window") <= options.maxWindowCount
    /\ \A i \in 1..Len(windowOpenings) :
         windowOpenings[i].wallKey \notin
           {opening.wallKey : opening \in Range(connectedDoors \o exteriorRoomExits)}

\* C30: the list of opening glyphs holds exactly one glyph for each connected
\* door, exterior exit and window, with the type of the opening.
C30_OneGlyphPerOpening ==
  wallPc = "done" =>
    /\ Len(openingGlyphs) =
         Len(connectedDoors) + Len(exteriorRoomExits) + Len(windowOpenings)
    /\ GlyphCount("door") = Len(connectedDoors) + Len(exteriorRoomExits)
    /\ GlyphCount("window") = Len(windowOpenings)

(***************************************************************************)
(* Claims about the compiled wall segments.                                *)
(***************************************************************************)
\* the walls of the attempt
AttemptWalls ==
  hallwayWalls \cup roomWalls

\* the openings of the attempt that carry a wall key
OpeningsOfKey(edge) ==
  {opening \in Range(connectedDoors \o exteriorRoomExits \o windowOpenings)
     : opening.wallKey = edge}

\* the offset of a point on the line of an edge, in hundredths
OffsetAlong(edge, x, y) ==
  (x - 100 * edge.x1) + (y - 100 * edge.y1)

\* a compiled segment lies on an edge
SegmentOnEdge(segment, edge) ==
  /\ segment.x1 \in Between(100 * edge.x1, 100 * edge.x2)
  /\ segment.x2 \in Between(100 * edge.x1, 100 * edge.x2)
  /\ segment.y1 \in Between(100 * edge.y1, 100 * edge.y2)
  /\ segment.y2 \in Between(100 * edge.y1, 100 * edge.y2)

\* the solid stretches compiled on an edge, as offset intervals
SolidOn(edge) ==
  { [start |-> OffsetAlong(edge, walls[i].x1, walls[i].y1),
     end   |-> OffsetAlong(edge, walls[i].x2, walls[i].y2)]
    : i \in {j \in 1..Len(walls) : SegmentOnEdge(walls[j], edge)} }

\* the stretch from offset to offset + 1 lies in one of the intervals
UnitCovered(intervals, offset) ==
  \E interval \in intervals : interval.start <= offset /\ offset + 1 <= interval.end

\* C31: on every wall the solid segments are pairwise disjoint, none meets the
\* interior of an opening of the wall, and every point of the wall lies in a
\* solid segment, in an opening or in a dropped gap of length <= 0.08.
C31_SegmentsComplementOpenings ==
  wallPc = "done" =>
    \A wall \in AttemptWalls :
      LET solid == SolidOn(wall.edge)
          openings == OpeningsOfKey(wall.edge)
          length == edgeLength(wall.edge)
      IN /\ \A a, b \in solid : a # b => a.end <= b.start \/ b.end <= a.start
         /\ \A segment \in solid, opening \in openings :
              segment.end <= opening.start \/ opening.end <= segment.start
         /\ \A segment \in solid : 0 <= segment.start /\ segment.start < segment.end
                                    /\ segment.end <= length
         /\ \A offset \in 0..(length - 9) :
              \E unit \in offset..(offset + 8) :
                UnitCovered(solid \cup openings, unit)

\* a wall carries two openings that intersect, the later listed starting
\* first, and solid segments on both sides of them
C31_Witness ==
  /\ wallPc = "done"
  /\ \E wall \in AttemptWalls :
       /\ Cardinality(SolidOn(wall.edge)) = 2
       /\ \E i, j \in 1..Len(exteriorRoomExits) :
            /\ i < j
            /\ exteriorRoomExits[i].wallKey = wall.edge
            /\ exteriorRoomExits[j].wallKey = wall.edge
            /\ exteriorRoomExits[j].start < exteriorRoomExits[i].start
            /\ exteriorRoomExits[i].start < exteriorRoomExits[j].end

(***************************************************************************)
(* Claims about the merging of boundary edges.                             *)
(***************************************************************************)
\* the unit edges a merged wall is made of
UnitEdgesOf(wall) ==
  LET item == BucketItem(wall)
  IN {UnitEdge(item.axis, item.coord, position) : position \in item.start..(item.end - 1)}

\* two merged walls lie on one grid line and touch or overlap
TouchOnLine(first, second) ==
  LET a == BucketItem(first)
      b == BucketItem(second)
  IN a.axis = b.axis /\ a.coord = b.coord /\ a.start <= b.end /\ b.start <= a.end

\* C32: the merged walls cover exactly the input edges, owner by owner; no two
\* merged walls of one owner on one grid line touch or overlap; a merged room
\* wall is made of edges of its own room only.
C32_MergedWallsCoverEdges ==
  wallPc # "raw" =>
    /\ UNION {UnitEdgesOf(wall) : wall \in hallwayWalls}
         = {raw.edge : raw \in {w \in rawWalls : w.roomId = 0}}
    /\ \A wall \in hallwayWalls : wall.roomId = 0
    /\ \A wall \in roomWalls :
         /\ wall.roomId # 0
         /\ \A edge \in UnitEdgesOf(wall) : [edge |-> edge, roomId |-> wall.roomId] \in rawWalls
    /\ \A raw \in rawWalls :
         raw.roomId # 0 =>
           \E wall \in roomWalls : wall.roomId = raw.roomId /\ raw.edge \in UnitEdgesOf(wall)
    /\ \A first, second \in hallwayWalls \cup roomWalls :
         first # second /\ first.roomId = second.roomId => ~TouchOnLine(first, second)

\* two rooms own edges that follow each other on one line, one room after the
\* other, and each has its own merged wall there; the hallway owns a wall too
C32_Witness ==
  /\ wallPc = "doors"
  /\ \E first, second \in roomWalls :
       /\ first.roomId = 1
       /\ second.roomId = 2
       /\ edgeLength(first.edge) >= 200
       /\ edgeLength(second.edge) >= 200
       /\ BucketItem(first).coord = BucketItem(second).coord
       /\ BucketItem(first).axis = BucketItem(second).axis
       /\ BucketItem(first).end = BucketItem(second).start
  /\ hallwayWalls # {}

(***************************************************************************)
(* Claims about the footprint of a hallway.                                *)
(***************************************************************************)
\* the cells of a set that a walk over sides shared by cells reaches from the
\* cells of frontier, which are reached already
RECURSIVE ReachedFrom(_, _, _)
ReachedFrom(reached, frontier, cells) ==
  LET next == (UNION {{<<cell[1] + 1, cell[2]>>, <<cell[1] - 1, cell[2]>>,
                       <<cell[1], cell[2] + 1>>, <<cell[1], cell[2] - 1>>}
                      : cell \in frontier} \cap cells) \ reached
  IN IF next = {} THEN reached ELSE ReachedFrom(reached \cup next, next, cells)

\* a set of cells is one 4-connected region
FourConnected(cells) ==
  /\ cells # {}
  /\ LET first == CHOOSE cell \in cells : TRUE
     IN ReachedFrom({first}, {first}, cells) = cells

\* C33: the cells of every hallway group lie inside the grid and are one
\* 4-connected region, for the shapes L, U, S and T and every placement of
\* the waypoints.
C33_FootprintInGridConnected ==
  \A i \in 1..Len(hallwayGroups) :
    /\ \A cell \in hallwayGroups[i].cells :
         /\ 0 <= cell[1] /\ cell[1] < options.cols
         /\ 0 <= cell[2] /\ cell[2] < options.rows
    /\ FourConnected(hallwayGroups[i].cells)

\* an S whose three bends are pairwise apart is carved
C33_Witness ==
  /\ hallwayPc = "done"
  /\ Len(hallwayGroups) = 1
  /\ hallwayGroups[1].shape = "S"
  /\ {<<3, 3>>, <<8, 3>>, <<8, 8>>, <<3, 8>>} \subseteq hallwayGroups[1].cells
  /\ <<5, 5>> \notin hallwayGroups[1].cells

(***************************************************************************)
(* Claims about what a room run leaves alone.                              *)
(***************************************************************************)
\* C34: a room run of a scale variant leaves the hallway cells, the hallway
\* walls and the initial door openings unchanged, every later variant starts
\* from an empty room state, and the caller's options are never modified.
C34_VariantsShareInputs ==
  [][ /\ hallwayCells' = hallwayCells
      /\ hallwayGroups' = hallwayGroups
      /\ hallwayWalls' = hallwayWalls
      /\ doorOpenings' = doorOpenings
      /\ userOptions' = userOptions
      /\ variantIndex' # variantIndex =>
           /\ roomRecords' = <<>>
           /\ roomIdByCell' = <<>>
           /\ occupiedCells' = hallwayCells'
           /\ connectedDoors' = <<>>
           /\ roomWalls' = {} ]_vars

\* a later variant has placed and grown a room after an earlier variant placed
\* rooms of its own
C34_Witness ==
  /\ variantIndex >= 1
  /\ ~best.isNull
  /\ best.connectedDoors >= 1
  /\ roomPc = "done"
  /\ Len(roomRecords) >= 1
  /\ growth.grown >= 1

(***************************************************************************)
(* Claims about the seeds of the random streams.                           *)
(***************************************************************************)
\* the streams of the running attempt created so far: its own (variant 0) and
\* those of the scale variants entered
StreamsOfRunningAttempt ==
  IF pc \notin {"scale", "variantDone"} THEN {}
  ELSE {<<attemptIndex, variant>>
          : variant \in 0..(variantIndex + (IF pc = "variantDone" THEN 1 ELSE 0))}

\* the streams of the attempts before the running one
StreamsOfEarlierAttempts ==
  (0..(attemptIndex - 1)) \X (0..ScaleCandidateCount)

\* C35: the initial 32-bit states of the streams of one call, those of the
\* attempts and those of their scale variants, are pairwise distinct.
C35_StreamsStartApart ==
  \A stream \in StreamsOfRunningAttempt :
    \A other \in (StreamsOfRunningAttempt \cup StreamsOfEarlierAttempts) \ {stream} :
      streamState(userOptions.seed, stream[1], stream[2])
        # streamState(userOptions.seed, other[1], other[2])

(***************************************************************************)
(* C36: what the throws know of the attempts that were run.                *)
(***************************************************************************)
\* the results of attempts the call has run that it still holds: the attempt
\* just finished and the best of the attempts before it
AttemptsHeld ==
  {held \in {attempt, bestAttempt} : ~held.isNull}

\* the outcome of the call when the step ends the attempt loop
OutcomeAfterLoop ==
  finishOutcome(options', bestAttempt')

\* C36: a strict error is raised only if no attempt satisfied that constraint:
\* when the attempt loop ends, strictDoorCount is in force and an attempt of
\* the call placed exactly doorCount doors, the door-count error is not thrown;
\* when requireExteriorExits is in force and an attempt of the call had two
\* exterior exits, the exterior-exit error is not thrown.
C36_ErrorOnlyIfNoAttemptSatisfied ==
  [][ (pc = "attemptDone" /\ pc' = "finish") =>
        /\ (/\ options.strictDoorCount
            /\ \E held \in AttemptsHeld : held.connectedDoors = options.doorCount)
             => ~(OutcomeAfterLoop.kind = "error" /\ OutcomeAfterLoop.error = "doorCount")
        /\ (/\ options.requireExteriorExits
            /\ \E held \in AttemptsHeld : held.hasExteriorExit)
             => ~(OutcomeAfterLoop.kind = "error" /\ OutcomeAfterLoop.error = "exteriorExit")
    ]_vars

(***************************************************************************)
(* C37: rooms and connected doors.                                         *)
(***************************************************************************)
\* the place of an opening in the list of door openings
DoorPosition(opening) ==
  CHOOSE i \in 1..Len(doorOpenings) : doorOpenings[i] = opening

\* C37: one room per connected door: after any sequence of placements and
\* backfill the number of rooms equals the number of connected doors and the
\* connected doors have pairwise distinct wall keys, so that the rooms of the
\* plan are as many as its placed doors.
C37_OneRoomPerConnectedDoor ==
  /\ Len(roomRecords) = Len(connectedDoors)
  /\ Len(roomsData) = Len(connectedDoors)
  /\ \A i, j \in 1..Len(connectedDoors) :
       i # j => connectedDoors[i].wallKey # connectedDoors[j].wallKey

\* the rooms of a call with two hallways are finished; the placement loop
\* ended and the backfill gave a hallway its room afterwards, on a door that
\* comes earlier in the list than a door that got its room before it
C37_Witness ==
  /\ roomPc = "done"
  /\ Len(hallwayGroups) = 2
  /\ Len(roomRecords) >= 2
  /\ {door.hallwayId : door \in Range(connectedDoors)} = {1, 2}
  /\ \E i, j \in 1..Len(connectedDoors) :
       /\ i < j
       /\ DoorPosition(connectedDoors[j]) < DoorPosition(connectedDoors[i])

(***************************************************************************)
(* C38: the shape of a room.                                               *)
(***************************************************************************)
\* the cells of the grid
GridCells ==
  (0..(Bounds.cols - 1)) \X (0..(Bounds.rows - 1))

\* C38: room contiguity: after the initial placement and after every growth
\* claim the cell set of each room is non-empty, lies inside the grid and is a
\* single 4-connected region.
C38_RoomsContiguous ==
  \A i \in 1..Len(roomRecords) :
    /\ roomRecords[i].cells # {}
    /\ roomRecords[i].cells \subseteq GridCells
    /\ FourConnected(roomRecords[i].cells)

\* growth has run to its end on two rooms, one of which reaches the edge of
\* the grid and is no longer a rectangle
C38_Witness ==
  /\ roomPc = "done"
  /\ Len(roomRecords) = 2
  /\ growth.grown >= 1
  /\ \E i \in 1..Len(roomRecords) :
       LET cells == roomRecords[i].cells
           xs == {cell[1] : cell \in cells}
           ys == {cell[2] : cell \in cells}
       IN /\ Cardinality(cells) < Cardinality(xs) * Cardinality(ys)
          /\ \E cell \in cells : cell[1] = 0 \/ cell[2] = 0
                                   \/ cell[1] = Bounds.cols - 1 \/ cell[2] = Bounds.rows - 1

(***************************************************************************)
(* C39: wall segments of different walls.                                  *)
(***************************************************************************)
\* two compiled segments run along the same grid line and share a stretch of
\* positive length
SegmentsOverlap(first, second) ==
  LET low(a, b) == IF a < b THEN a ELSE b
      high(a, b) == IF a < b THEN b ELSE a
  IN \/ /\ first.y1 = first.y2 /\ second.y1 = second.y2 /\ first.y1 = second.y1
        /\ high(low(first.x1, first.x2), low(second.x1, second.x2))
             < low(high(first.x1, first.x2), high(second.x1, second.x2))
     \/ /\ first.x1 = first.x2 /\ second.x1 = second.x2 /\ first.x1 = second.x1
        /\ high(low(first.y1, first.y2), low(second.y1, second.y2))
             < low(high(first.y1, first.y2), high(second.y1, second.y2))

\* C39: no duplicated wall geometry: no two wall segments of an attempt
\* overlap along a stretch of positive length, on the boundaries between a
\* room and a hallway and between two rooms as elsewhere.
C39_NoDuplicatedWallGeometry ==
  \A i, j \in 1..Len(walls) : i # j => ~SegmentsOverlap(walls[i], walls[j])

====
